---- MODULE Spec2Model ----
(***************************************************************************)
(* A model of the sandbox proxy gateway: the credential store (users,      *)
(* api_keys, sandboxes, audit_logs), the authentication and ownership      *)
(* middleware, the sandbox lifecycle handlers and the relay, together with *)
(* the orchestrator and the object store they call.  Every await of a      *)
(* handler is one step of a request, so requests interleave exactly where  *)
(* the event loop lets them.                                               *)
(***************************************************************************)
EXTENDS Integers, Sequences, FiniteSets, TLC

VARIABLES
  users,       \* rows of table users: [id, username, is_active]
  api_keys,    \* rows of table api_keys: [id, user_id, key_hash, key_prefix,
               \* expires_at, last_used_at, is_active]
  sandboxes,   \* rows of table sandboxes: [id, user_id, name, namespace, k8s_resource_name]
  audit_logs,  \* rows of table audit_logs: [user_id, action, status, resource_id]
  nextUserId,  \* the next fresh users.id (gen_random_uuid never repeats)
  nextKeyId,   \* the next fresh api_keys.id / random part of a generated key
  now,         \* the clock new Date() reads
  namespaces,  \* orchestrator: namespaces, [name, quota, policy]
  k8sObjects,  \* orchestrator: Sandbox custom objects
  gcsFolders,  \* object store: the folder placeholders that exist
  req,         \* the requests in flight, one record per connection slot
  sandboxCache, \* legacy variant: the Map from `${username}/${name}` to SandboxInfo
  discovery    \* legacy variant: the discoverSandboxes pass in flight, if any

dbVars  == <<users, api_keys, sandboxes, audit_logs, nextUserId, nextKeyId>>
k8sVars == <<namespaces, k8sObjects>>
legacyVars == <<sandboxCache, discovery>>
vars    == <<users, api_keys, sandboxes, audit_logs, nextUserId, nextKeyId, now,
             namespaces, k8sObjects, gcsFolders, req, sandboxCache, discovery>>

----------------------------------------------------------------------------
(* Bounds of the model *)

MaxUserIds == 2
MaxKeyIds == 2
MaxTime == 2
NReq == 2

NULL == "null"
Usernames == {"alice", "bob"}
Names == {"demo"}
Req == 1..NReq

\* gen_random_uuid(): the n-th identifier handed out
Uuids == <<"id1", "id2", "id3", "id4", "id5">>
\* crypto.randomBytes(24).toString('base64url'): the n-th random part drawn
RandomParts == <<"r1", "r2", "r3", "r4", "r5">>

\* A nullable timestamp column: {} is NULL, {t} is the timestamp t
NoExpiry == {}
\* last_used_at of a key no request has presented: NULL
NeverUsed == {}
Expiries == {NoExpiry} \cup {{t} : t \in 1..(MaxTime - 1)}

NoUser == [id |-> NULL, username |-> NULL]

----------------------------------------------------------------------------
(* Key codec: src/utils/crypto *)

\* `${prefix}_${randomPart}`; the random part is modelled by a fresh number
generateApiKey(prefix, rnd) == <<prefix, "_", rnd>>

\* SHA-256: deterministic, injective on the modelled keys, never the key itself
hashApiKey(apiKey) == <<"sha256", apiKey>>

\* The first characters of a random part: what of it fits into twelve
\* characters after 'sk_live_'; two random parts may begin alike
RandomHead(rnd) == IF rnd \in {"r1", "r3", "r5"} THEN "ra" ELSE "rb"

\* apiKey.substring(0, 12)
getApiKeyPrefix(apiKey) == <<apiKey[1], "_", RandomHead(apiKey[3])>>

----------------------------------------------------------------------------
(* Strings of the Authorization header, as sequences of characters and      *)
(* key material                                                            *)

\* req.headers.authorization: undefined when the header is absent
NoHeader == [present |-> FALSE, value |-> <<>>]
Header(value) == [present |-> TRUE, value |-> value]
\* !authHeader: undefined and the empty string are both falsy
Falsy(authHeader) == ~authHeader.present \/ authHeader.value = <<>>

Bearer == <<"B", "e", "a", "r", "e", "r", " ">>

\* A prefix test that compares lengths only
startsWith_Loose(s, p) == Len(s) >= Len(p)

startsWith(s, p) == Len(s) >= Len(p) /\ SubSeq(s, 1, Len(p)) = p
substring(s, n) == SubSeq(s, n + 1, Len(s))

BearerHeader(token) == Header(Bearer \o token)

----------------------------------------------------------------------------
(* Responses *)

Resp(status, error, message) ==
  [status |-> status, error |-> error, message |-> message]

NoResp == [status |-> 0, error |-> NULL, message |-> NULL]

----------------------------------------------------------------------------
(* Credential store queries *)

\* SELECT * FROM users WHERE id = $1 (the rows; at most one, id is the key)
getUserById(userId) == { u \in users : u.id = userId }

\* SELECT * FROM users WHERE username = $1
getUserByUsername(username) == { u \in users : u.username = username }

\* SELECT ak.*, u.username, u.is_active FROM api_keys ak JOIN users u ... WHERE key_hash = $1
KeyRows(keyHash) ==
  { row \in [key : api_keys, user : users] :
      row.key.user_id = row.user.id /\ row.key.key_hash = keyHash }

\* A validation that never looks at expires_at
validateApiKey_NoExpiry(keyHash) ==
  LET rows == KeyRows(keyHash) IN
  IF rows = {} THEN [valid |-> FALSE, reason |-> "Invalid API key", user |-> NoUser]
  ELSE LET row == CHOOSE x \in rows : TRUE IN
    IF ~row.key.is_active
    THEN [valid |-> FALSE, reason |-> "API key is inactive", user |-> NoUser]
    ELSE IF ~row.user.is_active
    THEN [valid |-> FALSE, reason |-> "User account is inactive", user |-> NoUser]
    ELSE [valid |-> TRUE, reason |-> NULL,
          user |-> [id |-> row.user.id, username |-> row.user.username]]

validateApiKey(keyHash) ==
  LET rows == KeyRows(keyHash) IN
  IF rows = {} THEN [valid |-> FALSE, reason |-> "Invalid API key", user |-> NoUser]
  ELSE LET row == CHOOSE x \in rows : TRUE IN
    IF ~row.key.is_active
    THEN [valid |-> FALSE, reason |-> "API key is inactive", user |-> NoUser]
    ELSE IF ~row.user.is_active
    THEN [valid |-> FALSE, reason |-> "User account is inactive", user |-> NoUser]
    ELSE IF \E t \in row.key.expires_at : t < now
    THEN [valid |-> FALSE, reason |-> "API key has expired", user |-> NoUser]
    ELSE [valid |-> TRUE, reason |-> NULL,
          user |-> [id |-> row.user.id, username |-> row.user.username]]

----------------------------------------------------------------------------
(* Authentication gate: the authenticate middleware.  The result says what *)
(* was answered, whether the credential store was queried and whether next *)
(* was called.                                                             *)

AuthReject(message, queried) ==
  [next |-> FALSE, queried |-> queried, user |-> NoUser,
   resp |-> Resp(401, "Unauthorized", message)]

authenticate(authHeader) ==
  IF Falsy(authHeader)
  THEN AuthReject("Missing Authorization header", FALSE)
  ELSE IF ~startsWith(authHeader.value, Bearer)
  THEN AuthReject("Invalid Authorization header format. Expected: Bearer <api-key>", FALSE)
  ELSE LET apiKey == substring(authHeader.value, 7) IN
    IF apiKey = <<>>
    THEN AuthReject("Empty API key", FALSE)
    ELSE LET result == validateApiKey(hashApiKey(apiKey)) IN
      IF ~result.valid
      THEN AuthReject(result.reason, TRUE)
      ELSE [next |-> TRUE, queried |-> TRUE, user |-> result.user, resp |-> NoResp]

\* The detached query validateApiKey starts before it returns valid:
\* pool.query('UPDATE api_keys SET last_used_at = CURRENT_TIMESTAMP WHERE id = $1')
\* of the key it found; nobody awaits it
NoUpdate == [id |-> NULL, state |-> "none"]
lastUsedUpdate(keyHash) ==
  IF validateApiKey(keyHash).valid
  THEN [id |-> (CHOOSE x \in KeyRows(keyHash) : TRUE).key.id, state |-> "pending"]
  ELSE NoUpdate

\* Admin gate: the authenticateAdmin middleware; adminApiKey is
\* process.env.ADMIN_API_KEY, read when the request is handled
AdminReject(status, error, message) ==
  [next |-> FALSE, queried |-> FALSE, user |-> NoUser,
   resp |-> Resp(status, error, message)]

\* A gate that answers 403 when no admin key is configured
authenticateAdmin_UnsetIs403(authHeader, adminApiKey) ==
  IF Falsy(authHeader)
  THEN AdminReject(401, "Unauthorized", "Missing Authorization header")
  ELSE IF ~startsWith(authHeader.value, Bearer)
  THEN AdminReject(401, "Unauthorized",
                   "Invalid Authorization header format. Expected: Bearer <api-key>")
  ELSE LET apiKey == substring(authHeader.value, 7) IN
    IF Falsy(adminApiKey) \/ apiKey # adminApiKey.value
    THEN AdminReject(403, "Forbidden", "Invalid admin API key")
    ELSE [next |-> TRUE, queried |-> FALSE, user |-> NoUser, resp |-> NoResp]

authenticateAdmin(authHeader, adminApiKey) ==
  IF Falsy(authHeader)
  THEN AdminReject(401, "Unauthorized", "Missing Authorization header")
  ELSE IF ~startsWith(authHeader.value, Bearer)
  THEN AdminReject(401, "Unauthorized",
                   "Invalid Authorization header format. Expected: Bearer <api-key>")
  ELSE LET apiKey == substring(authHeader.value, 7) IN
    IF Falsy(adminApiKey)
    THEN AdminReject(500, "Internal server error", "Admin authentication not configured")
    ELSE IF apiKey # adminApiKey.value
    THEN AdminReject(403, "Forbidden", "Invalid admin API key")
    ELSE [next |-> TRUE, queried |-> FALSE, user |-> NoUser, resp |-> NoResp]

----------------------------------------------------------------------------
(* Ownership store: table sandboxes *)

NoSandbox ==
  [id |-> NULL, user_id |-> NULL, name |-> NULL, namespace |-> <<>>,
   k8s_resource_name |-> NULL]

\* An ownership query that forgets the user_id condition
userOwnsSandbox_AnyUser(userId, sandboxName) ==
  \E s \in sandboxes : s.name = sandboxName

\* SELECT id FROM sandboxes WHERE user_id = $1 AND name = $2; rows.length > 0
userOwnsSandbox(userId, sandboxName) ==
  \E s \in sandboxes : s.user_id = userId /\ s.name = sandboxName

\* SELECT * FROM sandboxes WHERE user_id = $1 AND name = $2; rows[0] || null
getSandboxByUserAndName(userId, name) ==
  LET rows == { s \in sandboxes : s.user_id = userId /\ s.name = name } IN
  IF rows = {} THEN NoSandbox ELSE CHOOSE s \in rows : TRUE

\* A listing query that forgets the user_id condition
listSandboxesByUser_All(userId) == sandboxes

\* SELECT * FROM sandboxes WHERE user_id = $1 ORDER BY created_at DESC
listSandboxesByUser(userId) == { s \in sandboxes : s.user_id = userId }

\* the id DEFAULT gen_random_uuid() gives a row: some identifier no row has
FreshSandboxId ==
  Uuids[CHOOSE i \in 1..Len(Uuids) :
          /\ \A s \in sandboxes : s.id # Uuids[i]
          /\ \A j \in 1..(i - 1) : \E s \in sandboxes : s.id = Uuids[j]]

\* The sandbox names clients send, well-formed and not, and their characters
RequestNames == {"demo", "Bad_Name", "-demo"}

NameText(name) ==
  CASE name = "demo" -> <<"d", "e", "m", "o">>
    [] name = "Bad_Name" -> <<"B", "a", "d", "_", "N", "a", "m", "e">>
    [] name = "-demo" -> <<"-", "d", "e", "m", "o">>
    [] name = "demo-1" -> <<"d", "e", "m", "o", "-", "1">>

\* [a-z0-9] (the letters and digits the modelled names draw on)
LowerAlnum == {"a", "b", "d", "e", "m", "n", "o", "0", "1"}

\* name ~ '^[a-z0-9]([-a-z0-9]*[a-z0-9])?$'
NameFormat(name) ==
  LET t == NameText(name) IN
  /\ Len(t) >= 1
  /\ t[1] \in LowerAlnum
  /\ t[Len(t)] \in LowerAlnum
  /\ \A i \in 1..Len(t) : t[i] \in LowerAlnum \cup {"-"}

\* A sandboxes table declared without its UNIQUE constraints
SandboxInsertAllowed_NoUnique(userId, name, namespace, k8sResourceName) ==
  /\ \E u \in users : u.id = userId
  /\ NameFormat(name)

\* The constraints of CREATE TABLE sandboxes that an INSERT can violate
SandboxInsertAllowed(userId, name, namespace, k8sResourceName) ==
  /\ \E u \in users : u.id = userId                           \* REFERENCES users(id)
  /\ NameFormat(name)                                         \* CONSTRAINT name_format
  /\ ~\E s \in sandboxes : s.user_id = userId /\ s.name = name \* UNIQUE(user_id, name)
  /\ ~\E s \in sandboxes :                                     \* UNIQUE(namespace, k8s_resource_name)
        s.namespace = namespace /\ s.k8s_resource_name = k8sResourceName

\* INSERT INTO sandboxes ... RETURNING *: the table after the insert
createSandboxDb(userId, name, namespace, k8sResourceName) ==
  sandboxes \cup
    {[id |-> FreshSandboxId, user_id |-> userId, name |-> name,
      namespace |-> namespace, k8s_resource_name |-> k8sResourceName]}

\* DELETE FROM sandboxes WHERE user_id = $1 AND name = $2: the table afterwards
deleteSandboxByUserAndName(userId, name) ==
  { s \in sandboxes : ~(s.user_id = userId /\ s.name = name) }

----------------------------------------------------------------------------
(* Audit recorder: table audit_logs *)

\* user_id UUID REFERENCES users(id): NULL or an existing user
AuditInsertAllowed(userId) == userId = NULL \/ \E u \in users : u.id = userId

createAuditLog(userId, action, status, resourceId) ==
  audit_logs \cup
    {[user_id |-> userId, action |-> action, status |-> status,
      resource_id |-> resourceId]}

----------------------------------------------------------------------------
(* Users and API keys: the statements of the admin routes *)

\* INSERT INTO users (username, email, is_active) VALUES ($1, $2, true)
createUser(username) ==
  users \cup {[id |-> Uuids[nextUserId], username |-> username, is_active |-> TRUE]}

\* DELETE FROM users WHERE id = $1
deleteUser(userId) == { u \in users : u.id # userId }

\* ON DELETE CASCADE of api_keys.user_id and sandboxes.user_id
CascadeRows(rows, userId) == { x \in rows : x.user_id # userId }

\* ON DELETE SET NULL of audit_logs.user_id
SetNullRows(rows, userId) ==
  { IF a.user_id = userId THEN [a EXCEPT !.user_id = NULL] ELSE a : a \in rows }

\* UPDATE users SET is_active = $1 WHERE id = $2
updateUser(userId, isActive) ==
  { IF u.id = userId THEN [u EXCEPT !.is_active = isActive] ELSE u : u \in users }

\* The plaintext key createApiKey generates from the n-th random draw
PlaintextKey(n) == generateApiKey("sk_live", RandomParts[n])

\* An insert that keeps the key itself in the key_hash column
createApiKey_StoresPlaintext(userId, expiresAt) ==
  api_keys \cup
    {[id |-> Uuids[nextKeyId], user_id |-> userId,
      key_hash |-> PlaintextKey(nextKeyId),
      key_prefix |-> getApiKeyPrefix(PlaintextKey(nextKeyId)),
      expires_at |-> expiresAt, last_used_at |-> NeverUsed, is_active |-> TRUE]}

\* An insert that stores the digest of another key than the one it returns
createApiKey_OtherDigest(userId, expiresAt) ==
  api_keys \cup
    {[id |-> Uuids[nextKeyId], user_id |-> userId,
      key_hash |-> hashApiKey(generateApiKey("sk_test", RandomParts[nextKeyId])),
      key_prefix |-> getApiKeyPrefix(PlaintextKey(nextKeyId)),
      expires_at |-> expiresAt, last_used_at |-> NeverUsed, is_active |-> TRUE]}

\* INSERT INTO api_keys (user_id, key_hash, key_prefix, name, expires_at, is_active)
createApiKey(userId, expiresAt) ==
  api_keys \cup
    {[id |-> Uuids[nextKeyId], user_id |-> userId,
      key_hash |-> hashApiKey(PlaintextKey(nextKeyId)),
      key_prefix |-> getApiKeyPrefix(PlaintextKey(nextKeyId)),
      expires_at |-> expiresAt, last_used_at |-> NeverUsed, is_active |-> TRUE]}

\* SELECT * FROM api_keys WHERE user_id = $1
listApiKeysByUser(userId) == { k \in api_keys : k.user_id = userId }

\* SELECT * FROM api_keys WHERE id = $1
getApiKeyById(keyId) == { k \in api_keys : k.id = keyId }

\* An update that flips the flag instead of clearing it
revokeApiKey_Toggle(keyId) ==
  { IF k.id = keyId THEN [k EXCEPT !.is_active = ~k.is_active] ELSE k : k \in api_keys }

\* UPDATE api_keys SET is_active = false WHERE id = $1
revokeApiKey(keyId) ==
  { IF k.id = keyId THEN [k EXCEPT !.is_active = FALSE] ELSE k : k \in api_keys }

----------------------------------------------------------------------------
(* Orchestrator and object store *)

\* `user-${username}`
\* One namespace for every user
UserNamespace_Shared(username) == <<"user-", "shared">>

\* `user-${username}`
UserNamespace(username) == <<"user-", username>>

\* `${username}/${name}`
GcsFolderPath(username, name) == <<username, "/", name>>

NoObject ==
  [namespace |-> <<>>, name |-> NULL, user |-> NULL, image |-> NULL, replicas |-> 1,
   serviceFQDN |-> NULL, ready |-> NULL]

\* The Sandbox custom object POST /api/sandboxes submits
sandboxSpec(namespace, k8sResourceName, username) ==
  [namespace |-> namespace, name |-> k8sResourceName, user |-> username,
   image |-> "sandboxImage", replicas |-> 1, serviceFQDN |-> NULL, ready |-> NULL]

K8sFind(namespace, name) ==
  { o \in k8sObjects : o.namespace = namespace /\ o.name = name }

NamespaceExists(namespace) == \E n \in namespaces : n.name = namespace

----------------------------------------------------------------------------
(* Requests.  A request is the record of one connection slot: the route    *)
(* and inputs, the position of its middleware chain or handler (pc), the   *)
(* handler's locals, and what it has answered.                             *)

ScopedKinds == {"get", "delete", "pause", "resume"}
Kinds == ScopedKinds \cup {"create", "proxy"}
\* GET /api/me: behind authenticate alone, its handler answers without awaiting
MeKind == "me"

\* An orchestrator or upstream call: the operation, the object it names, the
\* user_id of the sandbox record the name was taken from, and the answer
NoCall == [op |-> NULL, namespace |-> <<>>, name |-> NULL, owner |-> NULL,
           answer |-> NULL]

\* The JSON body of an answer of the key routes: api_key, key_info (none or
\* one) and api_keys (the rows of a listing)
NoBody == [api_key |-> <<>>, key_info |-> {}, api_keys |-> {}]

IdleReq ==
  [pc |-> "idle", kind |-> NULL, hdr |-> NoHeader, name |-> NULL,
   user |-> NoUser,        \* req.user, attached by authenticate
   queried |-> FALSE,      \* authenticate issued its credential store query
   owned |-> FALSE,        \* the ownership check of this request has passed
   sandbox |-> NoSandbox,  \* const sandbox = await getSandboxByUserAndName(...)
   obj |-> NoObject,       \* response.body of getNamespacedCustomObject
   fresh |-> FALSE,        \* obj still carries the object's current resourceVersion
   call |-> NoCall,        \* the last orchestrator or upstream call issued
   steps |-> <<>>,         \* the provisioning steps that succeeded, in order
   rows |-> {},            \* const sandboxes = await listSandboxesByUser(userId)
   list |-> {},            \* the sandboxes array of the answer of GET /api/sandboxes
   env |-> NoHeader,       \* process.env.ADMIN_API_KEY as authenticateAdmin read it
   body |-> NoBody,        \* the JSON body of a key route's answer
   touch |-> NoUpdate,     \* the last_used_at update validateApiKey started
   resp |-> NoResp]

Free(r) == req[r].pc \in {"idle", "done", "hung"}
At(r, kind, pc) == req[r].kind = kind /\ req[r].pc = pc
Set(r, rec) == req' = [req EXCEPT ![r] = rec]
\* The handler has answered and returned: its locals are gone
Done(rec, resp) ==
  [rec EXCEPT !.pc = "done", !.resp = resp, !.sandbox = NoSandbox,
              !.obj = NoObject, !.fresh = FALSE]
Reply(r, resp) == Set(r, Done(req[r], resp))

InternalError(message) == Resp(500, "Internal server error", message)
NotFound == Resp(404, "Not Found", "Sandbox not found")
Forbidden == Resp(403, "Forbidden", "You do not have access to this sandbox")

\* A write to the object (namespace, name) gives it a new resourceVersion:
\* what other requests read before is stale
Stale(rq, r, namespace, name) ==
  [x \in Req |->
     IF x # r /\ rq[x].fresh /\ rq[x].obj.namespace = namespace /\ rq[x].obj.name = name
     THEN [rq[x] EXCEPT !.fresh = FALSE] ELSE rq[x]]

----------------------------------------------------------------------------
(* Middleware *)

\* A request arrives and runs authenticate: router.<method>(path, authenticate, ...)
Start(r, kind, hdr, name) ==
  /\ Free(r)
  /\ LET a == authenticate(hdr) IN
     Set(r, [IdleReq EXCEPT !.kind = kind, !.hdr = hdr, !.name = name,
               !.queried = a.queried, !.user = a.user,
               !.touch = IF a.queried
                         THEN lastUsedUpdate(hashApiKey(substring(hdr.value, 7)))
                         ELSE NoUpdate,
               !.resp = IF a.next /\ kind = MeKind THEN Resp(200, NULL, "user") ELSE a.resp,
               !.pc = IF ~a.next \/ kind = MeKind THEN "done"
                      ELSE IF kind \in ScopedKinds THEN "authorize"
                      ELSE "handler"])
  /\ UNCHANGED <<dbVars, now, legacyVars, k8sVars, gcsFolders>>

\* A gate that lets the request through when its credential store query throws
StartThrows_FailsOpen(r, kind, hdr, name) ==
  /\ Free(r)
  /\ authenticate(hdr).queried
  /\ Set(r, [IdleReq EXCEPT !.kind = kind, !.hdr = hdr, !.name = name,
               !.queried = TRUE,
               !.resp = IF kind = MeKind THEN Resp(200, NULL, "user") ELSE NoResp,
               !.pc = IF kind = MeKind THEN "done"
                      ELSE IF kind \in ScopedKinds THEN "authorize"
                      ELSE "handler"])
  /\ UNCHANGED <<dbVars, now, legacyVars, k8sVars, gcsFolders>>

\* A request arrives and the query of validateApiKey throws (the credential store
\* is unreachable): the catch of authenticate answers 500, next is not called
StartThrows(r, kind, hdr, name) ==
  /\ Free(r)
  /\ authenticate(hdr).queried
  /\ Set(r, [IdleReq EXCEPT !.kind = kind, !.hdr = hdr, !.name = name,
               !.queried = TRUE, !.pc = "done",
               !.resp = InternalError("Failed to authenticate request")])
  /\ UNCHANGED <<dbVars, now, legacyVars, k8sVars, gcsFolders>>

\* The detached last_used_at update of request r reaches the credential store
LastUsedApplied(r) ==
  /\ req[r].touch.state = "pending"
  /\ api_keys' = { IF k.id = req[r].touch.id THEN [k EXCEPT !.last_used_at = {now}] ELSE k :
                     k \in api_keys }
  /\ Set(r, [req[r] EXCEPT !.touch.state = "applied"])
  /\ UNCHANGED <<users, sandboxes, audit_logs, nextUserId, nextKeyId, now, legacyVars, k8sVars,
                 gcsFolders>>

\* An update whose failure ends the request that started it
LastUsedFailed_FailsRequest(r) ==
  /\ req[r].touch.state = "pending"
  /\ Set(r, [Done(req[r], InternalError("Failed to update last_used_at"))
               EXCEPT !.touch.state = "failed", !.user = NoUser])
  /\ UNCHANGED <<dbVars, now, legacyVars, k8sVars, gcsFolders>>

\* The detached update is rejected: .catch((err) => console.error(...))
LastUsedFailed(r) ==
  /\ req[r].touch.state = "pending"
  /\ Set(r, [req[r] EXCEPT !.touch.state = "failed"])
  /\ UNCHANGED <<dbVars, now, legacyVars, k8sVars, gcsFolders>>

\* An ownership gate that tells a name nobody owns from a name another user owns
authorizeSandboxAccess_Leaky(user, sandboxName) ==
  IF user = NoUser
  THEN [next |-> FALSE, resp |-> Resp(401, "Unauthorized", "Authentication required")]
  ELSE IF sandboxName = NULL
  THEN [next |-> FALSE, resp |-> Resp(400, "Bad Request", "Sandbox name is required")]
  ELSE IF ~\E s \in sandboxes : s.name = sandboxName
  THEN [next |-> FALSE, resp |-> NotFound]
  ELSE IF ~userOwnsSandbox(user.id, sandboxName)
  THEN [next |-> FALSE, resp |-> Forbidden]
  ELSE [next |-> TRUE, resp |-> NoResp]

\* The decision of authorizeSandboxAccess for req.user and req.params.name
authorizeSandboxAccess(user, sandboxName) ==
  IF user = NoUser
  THEN [next |-> FALSE, resp |-> Resp(401, "Unauthorized", "Authentication required")]
  ELSE IF sandboxName = NULL
  THEN [next |-> FALSE, resp |-> Resp(400, "Bad Request", "Sandbox name is required")]
  ELSE IF ~userOwnsSandbox(user.id, sandboxName)
  THEN [next |-> FALSE, resp |-> Forbidden]
  ELSE [next |-> TRUE, resp |-> NoResp]

\* An ownership gate that records the denial in the audit log
Authorize_AuditsDenial(r) ==
  /\ req[r].pc = "authorize"
  /\ LET a == authorizeSandboxAccess(req[r].user, req[r].name) IN
     IF a.next
     THEN Set(r, [req[r] EXCEPT !.pc = "handler", !.owned = TRUE]) /\ UNCHANGED audit_logs
     ELSE /\ Reply(r, a.resp)
          /\ audit_logs' = createAuditLog(req[r].user.id, "access_sandbox", "denied",
                                          req[r].name)
  /\ UNCHANGED <<users, api_keys, sandboxes, nextUserId, nextKeyId, now, legacyVars, k8sVars,
                 gcsFolders>>

Authorize(r) ==
  /\ req[r].pc = "authorize"
  /\ LET a == authorizeSandboxAccess(req[r].user, req[r].name) IN
     IF a.next
     THEN Set(r, [req[r] EXCEPT !.pc = "handler", !.owned = TRUE])
     ELSE Reply(r, a.resp)
  /\ UNCHANGED <<dbVars, now, legacyVars, k8sVars, gcsFolders>>

----------------------------------------------------------------------------
(* GET, DELETE /api/sandboxes/:name and POST /api/sandboxes/:name/pause,   *)
(* resume                                                                  *)

\* const sandbox = await getSandboxByUserAndName(userId, name); 404 if null
ScopedFetch(r) ==
  /\ req[r].pc = "handler" /\ req[r].kind \in ScopedKinds
  /\ LET sandbox == getSandboxByUserAndName(req[r].user.id, req[r].name) IN
     IF sandbox = NoSandbox
     THEN Reply(r, NotFound)
     ELSE Set(r, [req[r] EXCEPT !.sandbox = sandbox,
                    !.pc = IF req[r].kind = "delete" THEN "k8sDelete" ELSE "k8sGet"])
  /\ UNCHANGED <<dbVars, now, legacyVars, k8sVars, gcsFolders>>

CallOf(op, sandbox, answer) ==
  [op |-> op, namespace |-> sandbox.namespace, name |-> sandbox.k8s_resource_name,
   owner |-> sandbox.user_id, answer |-> answer]

\* The orchestrator's answer to a call on an object: a failed call, 404 when the
\* object is missing, else success
Answer(fault, found) ==
  IF fault THEN "error" ELSE IF found = {} THEN "notfound" ELSE "ok"

\* A relay that forwards as soon as the service name is known
K8sGet_SkipReadiness(r, fault) ==
  /\ req[r].pc = "k8sGet"
  /\ LET sb == req[r].sandbox
         found == K8sFind(sb.namespace, sb.k8s_resource_name)
         called == [req[r] EXCEPT !.call = CallOf("get", sb, Answer(fault, found))] IN
     IF fault \/ found = {}
     THEN Set(r, Done(called, InternalError("orchestrator get failed")))
     ELSE LET o == CHOOSE x \in found : TRUE
              got == [called EXCEPT !.obj = o, !.fresh = TRUE] IN
       IF req[r].kind = "get"
       THEN Set(r, Done(got, Resp(200, NULL, "status")))
       ELSE IF req[r].kind \in {"pause", "resume"}
       THEN Set(r, [got EXCEPT !.pc = "k8sReplace"])
       ELSE IF o.serviceFQDN = NULL
       THEN Set(r, Done(got, Resp(503, "Service Unavailable", "Sandbox service not ready")))
       ELSE Set(r, [got EXCEPT !.pc = "relay"])
  /\ UNCHANGED <<dbVars, now, legacyVars, k8sVars, gcsFolders>>

\* await k8sApi.getNamespacedCustomObject(..., sandbox.namespace, 'sandboxes',
\* sandbox.k8s_resource_name); it throws when the object is missing or the call fails
K8sGet(r, fault) ==
  /\ req[r].pc = "k8sGet"
  /\ LET sb == req[r].sandbox
         found == K8sFind(sb.namespace, sb.k8s_resource_name)
         called == [req[r] EXCEPT !.call = CallOf("get", sb, Answer(fault, found))] IN
     IF fault \/ found = {}
     THEN Set(r, Done(called, InternalError("orchestrator get failed")))
     ELSE LET o == CHOOSE x \in found : TRUE
              got == [called EXCEPT !.obj = o, !.fresh = TRUE] IN
       IF req[r].kind = "get"
       THEN Set(r, Done(got, Resp(200, NULL, "status")))
       ELSE IF req[r].kind \in {"pause", "resume"}
       THEN Set(r, [got EXCEPT !.pc = "k8sReplace"])
       ELSE IF o.serviceFQDN = NULL
       THEN Set(r, Done(got, Resp(503, "Service Unavailable", "Sandbox service not ready")))
       ELSE IF o.ready # "True"
       THEN Set(r, Done(got, Resp(503, "Service Unavailable", "Sandbox not ready")))
       ELSE Set(r, [got EXCEPT !.pc = "relay"])
  /\ UNCHANGED <<dbVars, now, legacyVars, k8sVars, gcsFolders>>

\* A replace that also clears the Ready condition of the object it read
K8sReplace_ClearsReady(r, fault) ==
  /\ req[r].pc = "k8sReplace"
  /\ LET sb == req[r].sandbox
         found == K8sFind(sb.namespace, sb.k8s_resource_name)
         called == [req[r] EXCEPT !.call =
                      CallOf("replace", sb,
                             IF ~fault /\ found # {} /\ ~req[r].fresh THEN "conflict"
                             ELSE Answer(fault, found))]
         updatedSandbox ==
           [req[r].obj EXCEPT !.replicas = IF req[r].kind = "pause" THEN 0 ELSE 1,
                              !.ready = "False"] IN
     IF fault \/ found = {} \/ ~req[r].fresh
     THEN /\ Set(r, Done(called, InternalError("orchestrator replace failed")))
          /\ UNCHANGED k8sObjects
     ELSE /\ k8sObjects' = (k8sObjects \ found) \cup {updatedSandbox}
          /\ req' = [Stale(req, r, sb.namespace, sb.k8s_resource_name)
                       EXCEPT ![r] = [called EXCEPT !.pc = "audit"]]
  /\ UNCHANGED <<dbVars, now, legacyVars, namespaces, gcsFolders>>

\* A replace submitted without the resourceVersion that was read: the orchestrator
\* takes it whatever was written in between
K8sReplace_Unconditional(r, fault) ==
  /\ req[r].pc = "k8sReplace"
  /\ LET sb == req[r].sandbox
         found == K8sFind(sb.namespace, sb.k8s_resource_name)
         called == [req[r] EXCEPT !.call = CallOf("replace", sb, Answer(fault, found))]
         updatedSandbox ==
           [req[r].obj EXCEPT !.replicas = IF req[r].kind = "pause" THEN 0 ELSE 1] IN
     IF fault \/ found = {}
     THEN /\ Set(r, Done(called, InternalError("orchestrator replace failed")))
          /\ UNCHANGED k8sObjects
     ELSE /\ k8sObjects' = (k8sObjects \ found) \cup {updatedSandbox}
          /\ req' = [Stale(req, r, sb.namespace, sb.k8s_resource_name)
                       EXCEPT ![r] = [called EXCEPT !.pc = "audit"]]
  /\ UNCHANGED <<dbVars, now, legacyVars, namespaces, gcsFolders>>

\* await k8sApi.replaceNamespacedCustomObject(..., updatedSandbox): the object read,
\* with spec.replicas overwritten.  The orchestrator refuses a missing object and
\* a stale resourceVersion.
K8sReplace(r, fault) ==
  /\ req[r].pc = "k8sReplace"
  /\ LET sb == req[r].sandbox
         found == K8sFind(sb.namespace, sb.k8s_resource_name)
         called == [req[r] EXCEPT !.call =
                      CallOf("replace", sb,
                             IF ~fault /\ found # {} /\ ~req[r].fresh THEN "conflict"
                             ELSE Answer(fault, found))]
         updatedSandbox ==
           [req[r].obj EXCEPT !.replicas = IF req[r].kind = "pause" THEN 0 ELSE 1] IN
     IF fault \/ found = {} \/ ~req[r].fresh
     THEN /\ Set(r, Done(called, InternalError("orchestrator replace failed")))
          /\ UNCHANGED k8sObjects
     ELSE /\ k8sObjects' = (k8sObjects \ found) \cup {updatedSandbox}
          /\ req' = [Stale(req, r, sb.namespace, sb.k8s_resource_name)
                       EXCEPT ![r] = [called EXCEPT !.pc = "audit"]]
  /\ UNCHANGED <<dbVars, now, legacyVars, namespaces, gcsFolders>>

\* await k8sApi.deleteNamespacedCustomObject(...): it throws when the orchestrator
\* answers 404 (the object is gone) or the call fails; the handler's catch answers 500
K8sDelete(r, fault) ==
  /\ req[r].pc = "k8sDelete"
  /\ LET sb == req[r].sandbox
         found == K8sFind(sb.namespace, sb.k8s_resource_name)
         called == [req[r] EXCEPT !.call = CallOf("delete", sb, Answer(fault, found))] IN
     IF fault \/ found = {}
     THEN /\ Set(r, Done(called, InternalError("orchestrator delete failed")))
          /\ UNCHANGED k8sObjects
     ELSE /\ k8sObjects' = k8sObjects \ found
          /\ req' = [Stale(req, r, sb.namespace, sb.k8s_resource_name)
                       EXCEPT ![r] = [called EXCEPT !.pc = "dbDelete"]]
  /\ UNCHANGED <<dbVars, now, legacyVars, namespaces, gcsFolders>>

\* await deleteSandboxByUserAndName(userId, name)
DbDelete(r) ==
  /\ req[r].pc = "dbDelete"
  /\ sandboxes' = deleteSandboxByUserAndName(req[r].user.id, req[r].name)
  /\ Set(r, [req[r] EXCEPT !.pc = "audit"])
  /\ UNCHANGED <<users, api_keys, audit_logs, nextUserId, nextKeyId, now, legacyVars, k8sVars,
                 gcsFolders>>

----------------------------------------------------------------------------
(* ALL /proxy/:sandboxname/* *)

\* An ownership check that answers 404 for a sandbox the caller does not own
ProxyCheck_NotFound(r) ==
  /\ At(r, "proxy", "handler")
  /\ IF userOwnsSandbox(req[r].user.id, req[r].name)
     THEN Set(r, [req[r] EXCEPT !.pc = "fetch", !.owned = TRUE])
     ELSE Reply(r, Resp(404, "Sandbox not found", NULL))
  /\ UNCHANGED <<dbVars, now, legacyVars, k8sVars, gcsFolders>>

\* const hasAccess = await userOwnsSandbox(userId, sandboxname); 403 if not
ProxyCheck(r) ==
  /\ At(r, "proxy", "handler")
  /\ IF userOwnsSandbox(req[r].user.id, req[r].name)
     THEN Set(r, [req[r] EXCEPT !.pc = "fetch", !.owned = TRUE])
     ELSE Reply(r, Forbidden)
  /\ UNCHANGED <<dbVars, now, legacyVars, k8sVars, gcsFolders>>

\* const sandbox = await getSandboxByUserAndName(userId, sandboxname); 404 if null
ProxyFetch(r) ==
  /\ At(r, "proxy", "fetch")
  /\ LET sandbox == getSandboxByUserAndName(req[r].user.id, req[r].name) IN
     IF sandbox = NoSandbox
     THEN Reply(r, Resp(404, "Sandbox not found", NULL))
     ELSE Set(r, [req[r] EXCEPT !.sandbox = sandbox, !.pc = "k8sGet"])
  /\ UNCHANGED <<dbVars, now, legacyVars, k8sVars, gcsFolders>>

\* What the upstream does with a forwarded request
UpstreamOutcomes == {"json200", "json404", "notJson", "unreachable"}
\* The upstream accepts the connection and never answers
Silent == "silent"

\* const proxyResponse = await fetch(targetUrl, fetchOptions); await proxyResponse.json()
\* A relay that answers with res.json(data) alone and so always says 200
ProxyRelay_DropsStatus(r, outcome) ==
  /\ At(r, "proxy", "relay")
  /\ LET called == [req[r] EXCEPT !.call = CallOf("relay", req[r].sandbox, outcome)] IN
     IF outcome = Silent
     THEN Set(r, [called EXCEPT !.pc = "awaiting"])
     ELSE Set(r, Done(called,
                      IF outcome \in {"json200", "json404"}
                      THEN Resp(200, NULL, "upstream body")
                      ELSE InternalError("upstream error")))
  /\ UNCHANGED <<dbVars, now, legacyVars, k8sVars, gcsFolders>>

\* The fetch has no timeout and no abort signal: while the upstream stays silent
\* the handler stays in its await
ProxyRelay(r, outcome) ==
  /\ At(r, "proxy", "relay")
  /\ LET called == [req[r] EXCEPT !.call = CallOf("relay", req[r].sandbox, outcome)] IN
     IF outcome = Silent
     THEN Set(r, [called EXCEPT !.pc = "awaiting"])
     ELSE Set(r, Done(called,
                      IF outcome = "json200" THEN Resp(200, NULL, "upstream body")
                      ELSE IF outcome = "json404" THEN Resp(404, NULL, "upstream body")
                      ELSE InternalError("upstream error")))
  /\ UNCHANGED <<dbVars, now, legacyVars, k8sVars, gcsFolders>>

----------------------------------------------------------------------------
(* POST /api/sandboxes *)

\* The catch block of POST /api/sandboxes is entered
Throw(r, message) ==
  [req[r] EXCEPT !.pc = "catch", !.resp = InternalError(message)]

\* A create handler that leaves duplicates to the table's constraint
CreateCheck_NoExistenceCheck(r) ==
  /\ At(r, "create", "handler")
  /\ IF req[r].name = NULL
     THEN Reply(r, Resp(400, "Bad Request", "name is required"))
     ELSE Set(r, [req[r] EXCEPT !.pc = "nsRead"])
  /\ UNCHANGED <<dbVars, now, legacyVars, k8sVars, gcsFolders>>

\* if (!name) 400; const existing = await getSandboxByUserAndName(userId, name); 409
CreateCheck(r) ==
  /\ At(r, "create", "handler")
  /\ IF req[r].name = NULL
     THEN Reply(r, Resp(400, "Bad Request", "name is required"))
     ELSE IF getSandboxByUserAndName(req[r].user.id, req[r].name) # NoSandbox
     THEN Reply(r, Resp(409, "Conflict", "Sandbox already exists"))
     ELSE Set(r, [req[r] EXCEPT !.pc = "nsRead"])
  /\ UNCHANGED <<dbVars, now, legacyVars, k8sVars, gcsFolders>>

\* ensureNamespaceExists: await coreApi.readNamespace(namespace)
NsRead(r, fault) ==
  /\ At(r, "create", "nsRead")
  /\ IF fault
     THEN Set(r, Throw(r, "readNamespace failed"))
     ELSE IF NamespaceExists(UserNamespace(req[r].user.username))
     THEN Set(r, [req[r] EXCEPT !.pc = "gcs"])
     ELSE Set(r, [req[r] EXCEPT !.pc = "nsCreate"])
  /\ UNCHANGED <<dbVars, now, legacyVars, k8sVars, gcsFolders>>

\* ensureNamespaceExists: await coreApi.createNamespace(...), outside any try
NsCreate(r, fault) ==
  /\ At(r, "create", "nsCreate")
  /\ LET namespace == UserNamespace(req[r].user.username) IN
     IF fault \/ NamespaceExists(namespace)
     THEN /\ Set(r, Throw(r, "createNamespace failed"))
          /\ UNCHANGED namespaces
     ELSE /\ namespaces' = namespaces \cup
               {[name |-> namespace, quota |-> FALSE, policy |-> FALSE]}
          /\ Set(r, [req[r] EXCEPT !.pc = "nsQuota"])
  /\ UNCHANGED <<dbVars, now, legacyVars, k8sObjects, gcsFolders>>

\* A quota step whose failure is thrown to the handler
NsQuota_Throws(r, fault) ==
  /\ At(r, "create", "nsQuota")
  /\ LET namespace == UserNamespace(req[r].user.username) IN
     namespaces' = IF fault THEN namespaces
                   ELSE { IF n.name = namespace THEN [n EXCEPT !.quota = TRUE] ELSE n :
                          n \in namespaces }
  /\ Set(r, IF fault THEN Throw(r, "createNamespacedResourceQuota failed")
            ELSE [req[r] EXCEPT !.pc = "nsPolicy"])
  /\ UNCHANGED <<dbVars, now, legacyVars, k8sObjects, gcsFolders>>

\* ensureNamespaceExists: try { createNamespacedResourceQuota } catch { log }
NsQuota(r, fault) ==
  /\ At(r, "create", "nsQuota")
  /\ LET namespace == UserNamespace(req[r].user.username) IN
     namespaces' = IF fault THEN namespaces
                   ELSE { IF n.name = namespace THEN [n EXCEPT !.quota = TRUE] ELSE n :
                          n \in namespaces }
  /\ Set(r, [req[r] EXCEPT !.pc = "nsPolicy"])
  /\ UNCHANGED <<dbVars, now, legacyVars, k8sObjects, gcsFolders>>

\* ensureNamespaceExists: try { createNamespacedNetworkPolicy } catch { log }
NsPolicy(r, fault) ==
  /\ At(r, "create", "nsPolicy")
  /\ LET namespace == UserNamespace(req[r].user.username) IN
     namespaces' = IF fault THEN namespaces
                   ELSE { IF n.name = namespace THEN [n EXCEPT !.policy = TRUE] ELSE n :
                          n \in namespaces }
  /\ Set(r, [req[r] EXCEPT !.pc = "gcs"])
  /\ UNCHANGED <<dbVars, now, legacyVars, k8sObjects, gcsFolders>>

\* await createGCSFolder(`${username}/${name}`): exists() then save(''), rethrown
CreateGcsFolder(r, fault) ==
  /\ At(r, "create", "gcs")
  /\ IF fault
     THEN /\ Set(r, Throw(r, "createGCSFolder failed"))
          /\ UNCHANGED gcsFolders
     ELSE /\ gcsFolders' = gcsFolders \cup
               {GcsFolderPath(req[r].user.username, req[r].name)}
          /\ Set(r, [req[r] EXCEPT !.pc = "k8sCreate",
                       !.steps = Append(@, "folder")])
  /\ UNCHANGED <<dbVars, now, legacyVars, k8sVars>>

\* A create handler that goes on to the INSERT after a refused submit
K8sCreate_IgnoreFailure(r, fault) ==
  /\ At(r, "create", "k8sCreate")
  /\ LET namespace == UserNamespace(req[r].user.username)
         refused == fault \/ K8sFind(namespace, req[r].name) # {}
         called == [req[r] EXCEPT
                      !.call = [op |-> "create", namespace |-> namespace,
                                name |-> req[r].name, owner |-> req[r].user.id,
                                answer |-> IF refused THEN "error" ELSE "ok"]] IN
     /\ k8sObjects' = IF refused THEN k8sObjects
                      ELSE k8sObjects \cup
                             {sandboxSpec(namespace, req[r].name, req[r].user.username)}
     /\ req' = [Stale(req, r, namespace, req[r].name)
                  EXCEPT ![r] = [called EXCEPT !.pc = "dbInsert",
                                   !.steps = Append(@, "object")]]
  /\ UNCHANGED <<dbVars, now, legacyVars, namespaces, gcsFolders>>

\* await k8sApi.createNamespacedCustomObject(..., userNamespace, 'sandboxes',
\* sandboxSpec): the orchestrator answers 409 when the name is taken
K8sCreate(r, fault) ==
  /\ At(r, "create", "k8sCreate")
  /\ LET namespace == UserNamespace(req[r].user.username)
         called == [req[r] EXCEPT
                      !.call = [op |-> "create", namespace |-> namespace,
                                name |-> req[r].name, owner |-> req[r].user.id,
                                answer |-> IF fault THEN "error"
                                           ELSE IF K8sFind(namespace, req[r].name) # {}
                                           THEN "conflict" ELSE "ok"]] IN
     IF fault \/ K8sFind(namespace, req[r].name) # {}
     THEN /\ Set(r, [called EXCEPT !.pc = "catch",
                       !.resp = InternalError("createNamespacedCustomObject failed")])
          /\ UNCHANGED k8sObjects
     ELSE /\ k8sObjects' = k8sObjects \cup
               {sandboxSpec(namespace, req[r].name, req[r].user.username)}
          /\ req' = [Stale(req, r, namespace, req[r].name)
                       EXCEPT ![r] = [called EXCEPT !.pc = "dbInsert",
                                        !.steps = Append(@, "object")]]
  /\ UNCHANGED <<dbVars, now, legacyVars, namespaces, gcsFolders>>

\* await createSandboxDb(userId, name, userNamespace, k8sResourceName, sandboxImage)
DbInsert(r) ==
  /\ At(r, "create", "dbInsert")
  /\ LET namespace == UserNamespace(req[r].user.username) IN
     IF SandboxInsertAllowed(req[r].user.id, req[r].name, namespace, req[r].name)
     THEN /\ sandboxes' = createSandboxDb(req[r].user.id, req[r].name, namespace,
                                          req[r].name)
          /\ Set(r, [req[r] EXCEPT !.pc = "audit", !.steps = Append(@, "record")])
     ELSE /\ Set(r, Throw(r, "insert violates a constraint"))
          /\ UNCHANGED sandboxes
  /\ UNCHANGED <<users, api_keys, audit_logs, nextUserId, nextKeyId, now, legacyVars, k8sVars,
                 gcsFolders>>

\* The INSERT of createSandboxDb throws because the credential store cannot be
\* reached: nothing is inserted, the handler's catch runs
DbInsertThrows(r) ==
  /\ At(r, "create", "dbInsert")
  /\ Set(r, Throw(r, "insert failed"))
  /\ UNCHANGED <<dbVars, now, legacyVars, k8sVars, gcsFolders>>

\* catch (error) { await createAuditLog(req.user!.id, 'create_sandbox', 'failed', ...);
\* res.status(500) }: a throw of createAuditLog leaves the request unanswered
CreateCatch(r) ==
  /\ At(r, "create", "catch")
  /\ IF AuditInsertAllowed(req[r].user.id)
     THEN /\ audit_logs' = createAuditLog(req[r].user.id, "create_sandbox", "failed", NULL)
          /\ Reply(r, req[r].resp)
     ELSE /\ Set(r, [req[r] EXCEPT !.pc = "hung", !.resp = NoResp])
          /\ UNCHANGED audit_logs
  /\ UNCHANGED <<users, api_keys, sandboxes, nextUserId, nextKeyId, now, legacyVars, k8sVars,
                 gcsFolders>>

----------------------------------------------------------------------------
(* GET /api/sandboxes *)

ListKind == "list"

\* const sandboxes = await listSandboxesByUser(userId)
ListRead(r) ==
  /\ At(r, ListKind, "handler")
  /\ Set(r, [req[r] EXCEPT !.rows = listSandboxesByUser(req[r].user.id),
                           !.pc = "listFetch"])
  /\ UNCHANGED <<dbVars, now, legacyVars, k8sVars, gcsFolders>>

\* The entry of a record whose getNamespacedCustomObject call threw
ErrorEntry(sb) ==
  [name |-> sb.name, namespace |-> sb.namespace, serviceFQDN |-> "error",
   service |-> "error", ready |-> FALSE]

\* The entry of a record whose object was read: status.serviceFQDN || 'pending',
\* status.service || 'pending' (published with the serviceFQDN), and whether
\* the Ready condition is 'True'
StatusEntry(sb, o) ==
  [name |-> sb.name, namespace |-> sb.namespace,
   serviceFQDN |-> IF o.serviceFQDN = NULL THEN "pending" ELSE o.serviceFQDN,
   service |-> IF o.serviceFQDN = NULL THEN "pending" ELSE o.name,
   ready |-> (o.ready = "True")]

\* Promise.all over the records: each fetch answers or throws on its own, and a
\* throw (the calls in failing, or an object that is gone) gives the error entry
ListFetch(r, failing) ==
  /\ At(r, ListKind, "listFetch")
  /\ failing \subseteq req[r].rows
  /\ LET entry(sb) ==
           LET found == K8sFind(sb.namespace, sb.k8s_resource_name) IN
           IF sb \in failing \/ found = {} THEN ErrorEntry(sb)
           ELSE StatusEntry(sb, CHOOSE o \in found : TRUE)
     IN Set(r, [Done(req[r], Resp(200, NULL, "sandboxes")) EXCEPT
                  !.rows = {}, !.list = { entry(sb) : sb \in req[r].rows }])
  /\ UNCHANGED <<dbVars, now, legacyVars, k8sVars, gcsFolders>>

----------------------------------------------------------------------------
(* The success path's audit entry and response, of create, delete, pause   *)
(* and resume                                                              *)

AuditAction(kind) ==
  IF kind = "create" THEN "create_sandbox"
  ELSE IF kind = "delete" THEN "delete_sandbox"
  ELSE IF kind = "pause" THEN "pause_sandbox" ELSE "resume_sandbox"

Success(kind) ==
  IF kind = "create" THEN Resp(201, NULL, "created successfully")
  ELSE IF kind = "delete" THEN Resp(200, NULL, "deleted successfully")
  ELSE IF kind = "pause" THEN Resp(200, NULL, "paused successfully")
  ELSE Resp(200, NULL, "resumed successfully")

\* await createAuditLog(userId, action, 'success', ...); res.json(...), inside the try
Conclude(r) ==
  /\ req[r].pc = "audit"
  /\ IF AuditInsertAllowed(req[r].user.id)
     THEN /\ audit_logs' = createAuditLog(req[r].user.id, AuditAction(req[r].kind),
                                          "success", req[r].name)
          /\ Reply(r, Success(req[r].kind))
     ELSE /\ UNCHANGED audit_logs
          /\ IF req[r].kind = "create"
             THEN Set(r, Throw(r, "audit insert violates a constraint"))
             ELSE Reply(r, InternalError("audit insert violates a constraint"))
  /\ UNCHANGED <<users, api_keys, sandboxes, nextUserId, nextKeyId, now, legacyVars, k8sVars,
                 gcsFolders>>

----------------------------------------------------------------------------
(* /api/admin: the handlers behind authenticateAdmin, each one step *)

\* POST /api/admin/users: 409 when the username is taken, else insert and audit
AdminCreateUser(username) ==
  /\ nextUserId <= MaxUserIds
  /\ getUserByUsername(username) = {}
  /\ users' = createUser(username)
  /\ nextUserId' = nextUserId + 1
  /\ audit_logs' = createAuditLog(NULL, "admin_create_user", "success", Uuids[nextUserId])
  /\ UNCHANGED <<api_keys, sandboxes, nextKeyId, now, legacyVars, k8sVars, gcsFolders, req>>

\* PUT /api/admin/users/:userId with is_active in the body
AdminUpdateUser(userId, isActive) ==
  /\ getUserById(userId) # {}
  /\ users' = updateUser(userId, isActive)
  /\ audit_logs' = createAuditLog(userId, "admin_update_user", "success", userId)
  /\ UNCHANGED <<api_keys, sandboxes, nextUserId, nextKeyId, now, legacyVars, k8sVars, gcsFolders,
                 req>>

\* DELETE /api/admin/users/:userId: deleteUser, whose cascade the schema defines;
\* the audit insert that follows names the deleted user and violates
\* audit_logs.user_id REFERENCES users(id), so the catch answers 500
AdminDeleteUser(userId) ==
  /\ getUserById(userId) # {}
  /\ users' = deleteUser(userId)
  /\ api_keys' = CascadeRows(api_keys, userId)
  /\ sandboxes' = CascadeRows(sandboxes, userId)
  /\ audit_logs' = SetNullRows(audit_logs, userId)
  /\ UNCHANGED <<nextUserId, nextKeyId, now, legacyVars, k8sVars, gcsFolders, req>>

\* POST /api/admin/users/:userId/apikeys
AdminCreateApiKey(userId, expiresAt) ==
  /\ nextKeyId <= MaxKeyIds
  /\ getUserById(userId) # {}
  /\ api_keys' = createApiKey(userId, expiresAt)
  /\ nextKeyId' = nextKeyId + 1
  /\ audit_logs' = createAuditLog(userId, "admin_create_api_key", "success",
                                  Uuids[nextKeyId])
  /\ UNCHANGED <<users, sandboxes, nextUserId, now, legacyVars, k8sVars, gcsFolders, req>>

\* DELETE /api/admin/apikeys/:keyId
AdminRevokeApiKey(keyId) ==
  /\ \E k \in api_keys : k.id = keyId
  /\ LET apiKey == CHOOSE k \in api_keys : k.id = keyId IN
     audit_logs' = createAuditLog(apiKey.user_id, "admin_revoke_api_key", "success", keyId)
  /\ api_keys' = revokeApiKey(keyId)
  /\ UNCHANGED <<users, sandboxes, nextUserId, nextKeyId, now, legacyVars, k8sVars, gcsFolders, req>>

----------------------------------------------------------------------------
(* /api/me: the self-service key routes behind authenticate, each one step *)

MeRequest(kind, hdr, a, keyId) ==
  [IdleReq EXCEPT !.kind = kind, !.hdr = hdr, !.name = keyId, !.queried = a.queried,
                  !.user = a.user, !.pc = "done", !.resp = a.resp,
                  !.touch = IF a.queried
                            THEN lastUsedUpdate(hashApiKey(substring(hdr.value, 7)))
                            ELSE NoUpdate]

\* A revocation route that does not compare apiKey.user_id with the caller's id
MeRevokeApiKey_NoOwnerCheck(r, hdr, keyId) ==
  /\ Free(r)
  /\ LET a == authenticate(hdr)
         rq == MeRequest("meRevoke", hdr, a, keyId)
         rows == getApiKeyById(keyId)
     IN IF ~a.next
        THEN Set(r, rq) /\ UNCHANGED <<api_keys, audit_logs>>
        ELSE IF rows = {}
        THEN /\ Set(r, [rq EXCEPT !.resp = Resp(404, "Not Found", "API key not found")])
             /\ UNCHANGED <<api_keys, audit_logs>>
        ELSE /\ api_keys' = revokeApiKey(keyId)
             /\ audit_logs' = createAuditLog(a.user.id, "revoke_api_key", "success", keyId)
             /\ Set(r, [rq EXCEPT !.resp = Resp(200, NULL, "API key revoked successfully")])
  /\ UNCHANGED <<users, sandboxes, nextUserId, nextKeyId, now, legacyVars, k8sVars, gcsFolders>>

\* DELETE /api/me/apikeys/:keyId
MeRevokeApiKey(r, hdr, keyId) ==
  /\ Free(r)
  /\ LET a == authenticate(hdr)
         rq == MeRequest("meRevoke", hdr, a, keyId)
         rows == getApiKeyById(keyId)
     IN IF ~a.next
        THEN Set(r, rq) /\ UNCHANGED <<api_keys, audit_logs>>
        ELSE IF rows = {}
        THEN /\ Set(r, [rq EXCEPT !.resp = Resp(404, "Not Found", "API key not found")])
             /\ UNCHANGED <<api_keys, audit_logs>>
        ELSE IF (CHOOSE k \in rows : TRUE).user_id # a.user.id
        THEN /\ Set(r, [rq EXCEPT !.resp = Resp(403, "Forbidden", "You do not own this API key")])
             /\ UNCHANGED <<api_keys, audit_logs>>
        ELSE /\ api_keys' = revokeApiKey(keyId)
             /\ audit_logs' = createAuditLog(a.user.id, "revoke_api_key", "success", keyId)
             /\ Set(r, [rq EXCEPT !.resp = Resp(200, NULL, "API key revoked successfully")])
  /\ UNCHANGED <<users, sandboxes, nextUserId, nextKeyId, now, legacyVars, k8sVars, gcsFolders>>

\* key_info of the 201 answer: id, key_prefix, name, created_at, expires_at
KeyInfo(k) == [id |-> k.id, key_prefix |-> k.key_prefix, expires_at |-> k.expires_at]

\* An entry of a listing: id, key_prefix, name, created_at, expires_at,
\* last_used_at, is_active
KeyListing(k) ==
  [id |-> k.id, key_prefix |-> k.key_prefix, expires_at |-> k.expires_at,
   last_used_at |-> k.last_used_at, is_active |-> k.is_active]

\* The row createApiKey returns (RETURNING *)
CreatedKey == CHOOSE k \in api_keys' : k.id = Uuids[nextKeyId]

\* res.status(201).json({ api_key: apiKey.plaintext_key, key_info: {...} })
KeyCreated(rq) ==
  [rq EXCEPT !.resp = Resp(201, NULL, "API key created successfully"),
             !.body = [api_key |-> PlaintextKey(nextKeyId),
                       key_info |-> {KeyInfo(CreatedKey)}, api_keys |-> {}]]

\* res.json({ count, api_keys: apiKeys.map(...) })
KeysListed(rq, userId) ==
  [rq EXCEPT !.resp = Resp(200, NULL, "api_keys"),
             !.body = [api_key |-> <<>>, key_info |-> {},
                       api_keys |-> { KeyListing(k) : k \in listApiKeysByUser(userId) }]]

\* POST /api/me/apikeys
MeCreateApiKey(r, hdr, expiresAt) ==
  /\ Free(r)
  /\ LET a == authenticate(hdr)
         rq == MeRequest("meCreateKey", hdr, a, NULL)
     IN IF ~a.next
        THEN Set(r, rq) /\ UNCHANGED <<api_keys, audit_logs, nextKeyId>>
        ELSE /\ nextKeyId <= MaxKeyIds
             /\ api_keys' = createApiKey(a.user.id, expiresAt)
             /\ nextKeyId' = nextKeyId + 1
             /\ audit_logs' = createAuditLog(a.user.id, "create_api_key", "success",
                                             Uuids[nextKeyId])
             /\ Set(r, KeyCreated(rq))
  /\ UNCHANGED <<users, sandboxes, nextUserId, now, legacyVars, k8sVars, gcsFolders>>

\* GET /api/me/apikeys
MeListApiKeys(r, hdr) ==
  /\ Free(r)
  /\ LET a == authenticate(hdr)
         rq == MeRequest("meListKeys", hdr, a, NULL)
     IN Set(r, IF a.next THEN KeysListed(rq, a.user.id) ELSE rq)
  /\ UNCHANGED <<dbVars, now, legacyVars, k8sVars, gcsFolders>>

----------------------------------------------------------------------------
(* /api/admin: requests through authenticateAdmin with their answers *)

AdminRequest(kind, hdr, adminApiKey, g, arg) ==
  [IdleReq EXCEPT !.kind = kind, !.hdr = hdr, !.env = adminApiKey, !.name = arg,
                  !.queried = g.queried, !.user = g.user, !.pc = "done",
                  !.resp = g.resp]

UserNotFound == Resp(404, "Not Found", "User not found")

\* POST /api/admin/users/:userId/apikeys
AdminPostApiKey(r, hdr, adminApiKey, userId, expiresAt) ==
  /\ Free(r)
  /\ LET g == authenticateAdmin(hdr, adminApiKey)
         rq == AdminRequest("adminCreateKey", hdr, adminApiKey, g, userId)
     IN IF ~g.next
        THEN Set(r, rq) /\ UNCHANGED <<api_keys, audit_logs, nextKeyId>>
        ELSE IF getUserById(userId) = {}
        THEN /\ Set(r, [rq EXCEPT !.resp = UserNotFound])
             /\ UNCHANGED <<api_keys, audit_logs, nextKeyId>>
        ELSE /\ nextKeyId <= MaxKeyIds
             /\ api_keys' = createApiKey(userId, expiresAt)
             /\ nextKeyId' = nextKeyId + 1
             /\ audit_logs' = createAuditLog(userId, "admin_create_api_key", "success",
                                             Uuids[nextKeyId])
             /\ Set(r, KeyCreated(rq))
  /\ UNCHANGED <<users, sandboxes, nextUserId, now, legacyVars, k8sVars, gcsFolders>>

\* GET /api/admin/users/:userId/apikeys
AdminListApiKeys(r, hdr, adminApiKey, userId) ==
  /\ Free(r)
  /\ LET g == authenticateAdmin(hdr, adminApiKey)
         rq == AdminRequest("adminListKeys", hdr, adminApiKey, g, userId)
     IN Set(r, IF ~g.next THEN rq
               ELSE IF getUserById(userId) = {} THEN [rq EXCEPT !.resp = UserNotFound]
               ELSE KeysListed(rq, userId))
  /\ UNCHANGED <<dbVars, now, legacyVars, k8sVars, gcsFolders>>

\* DELETE /api/admin/users/:userId with its answer: getUserById, deleteUser (the
\* schema cascades), then createAuditLog(userId, 'admin_delete_user', 'success'),
\* an INSERT the store refuses when userId names no user: the catch answers 500
AdminDeleteUserRequest(r, hdr, adminApiKey, userId) ==
  /\ Free(r)
  /\ LET g == authenticateAdmin(hdr, adminApiKey)
         rq == AdminRequest("adminDeleteUser", hdr, adminApiKey, g, userId)
     IN IF ~g.next
        THEN Set(r, rq) /\ UNCHANGED <<users, api_keys, sandboxes, audit_logs>>
        ELSE IF getUserById(userId) = {}
        THEN /\ Set(r, [rq EXCEPT !.resp = UserNotFound])
             /\ UNCHANGED <<users, api_keys, sandboxes, audit_logs>>
        ELSE /\ users' = deleteUser(userId)
             /\ api_keys' = CascadeRows(api_keys, userId)
             /\ sandboxes' = CascadeRows(sandboxes, userId)
             /\ IF \E u \in deleteUser(userId) : u.id = userId
                THEN /\ audit_logs' = SetNullRows(audit_logs, userId) \cup
                          {[user_id |-> userId, action |-> "admin_delete_user",
                            status |-> "success", resource_id |-> userId]}
                     /\ Set(r, [rq EXCEPT !.resp = Resp(200, NULL, "deleted")])
                ELSE /\ audit_logs' = SetNullRows(audit_logs, userId)
                     /\ Set(r, [rq EXCEPT !.resp =
                                  InternalError("insert violates audit_logs_user_id_fkey")])
  /\ UNCHANGED <<nextUserId, nextKeyId, now, legacyVars, k8sVars, gcsFolders>>

----------------------------------------------------------------------------
(* The environment *)

\* Time passes
Tick ==
  /\ now < MaxTime
  /\ now' = now + 1
  /\ UNCHANGED <<dbVars, k8sVars, gcsFolders, req, legacyVars>>

\* A Sandbox object is removed from the orchestrator out-of-band
K8sExternalDelete(o) ==
  /\ o \in k8sObjects
  /\ k8sObjects' = k8sObjects \ {o}
  /\ req' = Stale(req, 0, o.namespace, o.name)
  /\ UNCHANGED <<dbVars, now, legacyVars, namespaces, gcsFolders>>

\* Another client of the orchestrator changes the image of a Sandbox object's spec
K8sExternalEdit(o) ==
  /\ o \in k8sObjects
  /\ o.image # "edited"
  /\ k8sObjects' = (k8sObjects \ {o}) \cup {[o EXCEPT !.image = "edited"]}
  /\ req' = Stale(req, 0, o.namespace, o.name)
  /\ UNCHANGED <<dbVars, now, legacyVars, namespaces, gcsFolders>>

\* The sandbox controller reports the service and the Ready condition
K8sControllerReady(o) ==
  /\ o \in k8sObjects
  /\ o.serviceFQDN = NULL
  /\ k8sObjects' = (k8sObjects \ {o}) \cup
       {[o EXCEPT !.serviceFQDN = <<o.name, ".", o.namespace>>, !.ready = "True"]}
  /\ req' = Stale(req, 0, o.namespace, o.name)
  /\ UNCHANGED <<dbVars, now, legacyVars, namespaces, gcsFolders>>

\* The sandbox controller publishes the service name alone
K8sControllerService(o) ==
  /\ o \in k8sObjects
  /\ o.serviceFQDN = NULL
  /\ k8sObjects' = (k8sObjects \ {o}) \cup
       {[o EXCEPT !.serviceFQDN = <<o.name, ".", o.namespace>>]}
  /\ req' = Stale(req, 0, o.namespace, o.name)
  /\ UNCHANGED <<dbVars, now, legacyVars, namespaces, gcsFolders>>

\* The sandbox controller sets the Ready condition to 'True' or 'False'
K8sControllerCondition(o, status) ==
  /\ o \in k8sObjects
  /\ o.ready # status
  /\ k8sObjects' = (k8sObjects \ {o}) \cup {[o EXCEPT !.ready = status]}
  /\ req' = Stale(req, 0, o.namespace, o.name)
  /\ UNCHANGED <<dbVars, now, legacyVars, namespaces, gcsFolders>>

----------------------------------------------------------------------------
(* The legacy variant: a proxy without credential store that routes        *)
(* /{username}/{sandboxname}/* by a cache it fills from the orchestrator   *)

\* const key = `${username}/${name}`
CacheKey(username, name) == <<username, "/", name>>

\* The SandboxInfo discoverSandboxes stores for a listed object
SandboxInfo(o) ==
  [key |-> CacheKey(o.user, o.name), serviceFQDN |-> o.serviceFQDN,
   namespace |-> o.namespace, ready |-> (o.ready = "True")]

\* The listed objects that have status.service
WithService(items) == { o \in items : ~(o.serviceFQDN = NULL) }

\* sandboxCache.set(key, info) for every listed object with a service name
cacheSetAll(cache, items) ==
  LET found == { SandboxInfo(o) : o \in WithService(items) } IN
  { e \in cache : \A f \in found : f.key # e.key } \cup found

\* No discoverSandboxes call is in flight
NoPass == [pc |-> "idle", items |-> {}]

\* setInterval(discoverSandboxes, 30000): a pass starts and sends its list call
DiscoverStart ==
  /\ discovery.pc = "idle"
  /\ discovery' = [pc |-> "listing", items |-> {}]
  /\ UNCHANGED <<dbVars, now, k8sVars, gcsFolders, req, sandboxCache>>

\* k8sApi.listClusterCustomObject(...): the orchestrator answers with the objects
\* it holds, or the call fails and the catch of the pass logs the error
DiscoverList(fault) ==
  /\ discovery.pc = "listing"
  /\ discovery' = IF fault THEN NoPass ELSE [pc |-> "listed", items |-> k8sObjects]
  /\ UNCHANGED <<dbVars, now, k8sVars, gcsFolders, req, sandboxCache>>

\* for (const sandbox of sandboxes) { if (serviceName) sandboxCache.set(key, ...) }
DiscoverApply ==
  /\ discovery.pc = "listed"
  /\ sandboxCache' = cacheSetAll(sandboxCache, discovery.items)
  /\ discovery' = NoPass
  /\ UNCHANGED <<dbVars, now, k8sVars, gcsFolders, req>>

\* app.all('/:username/:sandboxname/*'): 404 without a cache entry, 503 when the
\* entry is not ready, else the request is forwarded and the answer relayed
LegacyProxy(r, username, name, outcome) ==
  /\ Free(r)
  /\ LET hit == { e \in sandboxCache : e.key = CacheKey(username, name) }
         rq == [IdleReq EXCEPT !.kind = "legacyProxy", !.name = name, !.pc = "done",
                               !.call = [op |-> "lookup", namespace |-> <<>>, name |-> name,
                                         owner |-> username, answer |-> NULL]] IN
     IF hit = {}
     THEN Set(r, [rq EXCEPT !.resp = Resp(404, "Sandbox not found", NULL)])
     ELSE LET sandboxInfo == CHOOSE e \in hit : TRUE IN
       IF ~sandboxInfo.ready
       THEN Set(r, [rq EXCEPT !.resp = Resp(503, "Sandbox not ready", NULL)])
       ELSE Set(r, [rq EXCEPT
              !.call = [op |-> "relay", namespace |-> sandboxInfo.namespace,
                        name |-> name, owner |-> username, answer |-> outcome],
              !.resp = IF outcome = "json200" THEN Resp(200, NULL, "upstream body")
                       ELSE IF outcome = "json404" THEN Resp(404, NULL, "upstream body")
                       ELSE Resp(500, "Failed to communicate with sandbox", NULL)])
  /\ UNCHANGED <<dbVars, now, k8sVars, gcsFolders, legacyVars>>

\* A Sandbox object labelled user: username appears in namespace default
K8sExternalCreate(username, name) ==
  /\ K8sFind(<<"default">>, name) = {}
  /\ k8sObjects' = k8sObjects \cup {sandboxSpec(<<"default">>, name, username)}
  /\ UNCHANGED <<dbVars, now, namespaces, gcsFolders, req, legacyVars>>

----------------------------------------------------------------------------
(* The system.  The credential store is empty when the gateway is first    *)
(* deployed (Init); Bootstrapped is the store after the admin API created  *)
(* alice and bob and one key for each.                                     *)

EmptyStore ==
  /\ users = {} /\ api_keys = {} /\ sandboxes = {} /\ audit_logs = {}
  /\ nextUserId = 1 /\ nextKeyId = 1

Bootstrapped ==
  /\ users = {[id |-> Uuids[1], username |-> "alice", is_active |-> TRUE],
              [id |-> Uuids[2], username |-> "bob", is_active |-> TRUE]}
  /\ api_keys = {[id |-> Uuids[i], user_id |-> Uuids[i],
                  key_hash |-> hashApiKey(PlaintextKey(i)),
                  key_prefix |-> getApiKeyPrefix(PlaintextKey(i)),
                  expires_at |-> NoExpiry, last_used_at |-> NeverUsed,
                  is_active |-> TRUE] : i \in 1..2}
  /\ sandboxes = {}
  /\ audit_logs =
       {[user_id |-> NULL, action |-> "admin_create_user", status |-> "success",
         resource_id |-> Uuids[i]] : i \in 1..2}
       \cup {[user_id |-> Uuids[i], action |-> "admin_create_api_key",
              status |-> "success", resource_id |-> Uuids[i]] : i \in 1..2}
  /\ nextUserId = 3 /\ nextKeyId = 3

Fresh ==
  /\ now = 0
  /\ namespaces = {} /\ k8sObjects = {} /\ gcsFolders = {}
  /\ req = [r \in Req |-> IdleReq]
  /\ sandboxCache = {} /\ discovery = NoPass

Init == EmptyStore /\ Fresh
InitBootstrapped == Bootstrapped /\ Fresh

IssuedIds == { Uuids[i] : i \in 1..MaxUserIds }
IssuedKeyIds == { Uuids[i] : i \in 1..MaxKeyIds }

\* The headers of alice's and bob's clients
KeyHeaders == { BearerHeader(PlaintextKey(i)) : i \in 1..2 }

\* Authorization headers of every shape authenticate tells apart
AuthHeaders ==
  { NoHeader, Header(<<>>), Header(<<"B", "a", "s", "i", "c", " ", "x">>),
    Header(Bearer), Header(<<"B", "e", "a", "r", "e", "r">> \o PlaintextKey(1)),
    Header(<<"b", "e", "a", "r", "e", "r", " ">> \o PlaintextKey(1)),
    Header(PlaintextKey(1)), BearerHeader(<<"sk_live", "_", "bogus">>) }
  \cup { BearerHeader(PlaintextKey(i)) : i \in 1..MaxKeyIds }

(* The authentication gate against a changing credential store *)
NextAuth ==
  \/ \E u \in Usernames : AdminCreateUser(u)
  \/ \E id \in IssuedIds, e \in Expiries : AdminCreateApiKey(id, e)
  \/ \E id \in IssuedIds, b \in BOOLEAN : AdminUpdateUser(id, b)
  \/ \E id \in IssuedIds : AdminDeleteUser(id)
  \/ \E id \in IssuedKeyIds : AdminRevokeApiKey(id)
  \/ Tick
  \/ \E hdr \in AuthHeaders : Start(1, MeKind, hdr, NULL)

SpecAuth == Init /\ [][NextAuth]_vars

\* The headers carrying the plaintext of a key the store can issue
IssuedKeyHeaders == { BearerHeader(PlaintextKey(i)) : i \in 1..MaxKeyIds }

(* The key routes: creation, listing, revocation and use of API keys *)
NextKeys ==
  \/ \E u \in Usernames : AdminCreateUser(u)
  \/ \E id \in IssuedIds, e \in Expiries : AdminCreateApiKey(id, e)
  \/ \E id \in IssuedIds, b \in BOOLEAN : AdminUpdateUser(id, b)
  \/ \E id \in IssuedIds : AdminDeleteUser(id)
  \/ \E id \in IssuedKeyIds : AdminRevokeApiKey(id)
  \/ Tick
  \/ \E hdr \in IssuedKeyHeaders : Start(1, MeKind, hdr, NULL)
  \/ \E hdr \in IssuedKeyHeaders, id \in IssuedKeyIds : MeRevokeApiKey(1, hdr, id)

SpecKeys == Init /\ [][NextKeys]_vars

\* ADMIN_API_KEY as deployed, left unset, or set to the empty string
AdminSecret == <<"admin-secret">>
AdminEnvs == { NoHeader, Header(<<>>), Header(AdminSecret) }

(* Issuing keys: creation and listing by the admin and by the users *)
NextIssue ==
  \/ \E u \in Usernames : AdminCreateUser(u)
  \/ \E id \in IssuedIds, b \in BOOLEAN : AdminUpdateUser(id, b)
  \/ Tick
  \/ \E id \in IssuedIds, e \in Expiries :
        AdminPostApiKey(1, BearerHeader(AdminSecret), Header(AdminSecret), id, e)
  \/ \E id \in IssuedIds :
        AdminListApiKeys(1, BearerHeader(AdminSecret), Header(AdminSecret), id)
  \/ \E hdr \in IssuedKeyHeaders, e \in Expiries : MeCreateApiKey(1, hdr, e)
  \/ \E hdr \in IssuedKeyHeaders : MeListApiKeys(1, hdr)
  \/ \E hdr \in IssuedKeyHeaders : Start(1, MeKind, hdr, NULL)

SpecIssue == Init /\ [][NextIssue]_vars

\* Authorization headers of every shape authenticateAdmin tells apart
AdminHeaders ==
  { NoHeader, Header(<<>>), Header(<<"B", "a", "s", "i", "c", " ">> \o AdminSecret),
    Header(Bearer), Header(AdminSecret),
    Header(<<"b", "e", "a", "r", "e", "r", " ">> \o AdminSecret),
    BearerHeader(AdminSecret), BearerHeader(AdminSecret \o <<"x">>),
    BearerHeader(<<"admin-secre">>) }
  \cup IssuedKeyHeaders

(* The admin gate in front of the admin routes *)
NextAdmin ==
  \/ \E u \in Usernames : AdminCreateUser(u)
  \/ \E hdr \in AdminHeaders, env \in AdminEnvs, id \in IssuedIds, e \in Expiries :
        AdminPostApiKey(1, hdr, env, id, e)
  \/ \E hdr \in AdminHeaders, env \in AdminEnvs, id \in IssuedIds :
        AdminListApiKeys(1, hdr, env, id)
  \/ \E hdr \in IssuedKeyHeaders : Start(1, MeKind, hdr, NULL)

SpecAdmin == Init /\ [][NextAdmin]_vars

(* The lifecycle routes and the relay, one request at a time *)
Next ==
  \/ \E o \in k8sObjects : K8sExternalDelete(o)
  \/ \E o \in k8sObjects : K8sControllerReady(o)
  \/ \E kind \in Kinds \ {"pause", "resume"}, hdr \in KeyHeaders, name \in Names :
       Start(1, kind, hdr, name)
  \/ Authorize(1)
  \/ ScopedFetch(1)
  \/ \E fault \in BOOLEAN : K8sGet(1, fault)
  \/ \E fault \in BOOLEAN : K8sDelete(1, fault)
  \/ DbDelete(1)
  \/ ProxyCheck(1)
  \/ ProxyFetch(1)
  \/ \E outcome \in UpstreamOutcomes : ProxyRelay(1, outcome)
  \/ CreateCheck(1)
  \/ \E fault \in BOOLEAN : NsRead(1, fault)
  \/ \E fault \in BOOLEAN : NsCreate(1, fault)
  \/ \E fault \in BOOLEAN : NsQuota(1, fault)
  \/ \E fault \in BOOLEAN : NsPolicy(1, fault)
  \/ \E fault \in BOOLEAN : CreateGcsFolder(1, fault)
  \/ \E fault \in BOOLEAN : K8sCreate(1, fault)
  \/ DbInsert(1)
  \/ CreateCatch(1)
  \/ Conclude(1)

Spec == InitBootstrapped /\ [][Next]_vars

(* Every sandbox-scoped route and the relay; alice is the only tenant who  *)
(* creates sandboxes, bob's client addresses hers                          *)
NextScoped ==
  \/ \E o \in k8sObjects : K8sExternalDelete(o)
  \/ \E o \in k8sObjects : K8sControllerReady(o)
  \/ \E name \in Names : Start(1, "create", BearerHeader(PlaintextKey(1)), name)
  \/ \E kind \in ScopedKinds \cup {"proxy"}, hdr \in KeyHeaders, name \in Names :
       Start(1, kind, hdr, name)
  \/ Authorize(1)
  \/ ScopedFetch(1)
  \/ \E fault \in BOOLEAN : K8sGet(1, fault)
  \/ \E fault \in BOOLEAN : K8sReplace(1, fault)
  \/ \E fault \in BOOLEAN : K8sDelete(1, fault)
  \/ DbDelete(1)
  \/ ProxyCheck(1)
  \/ ProxyFetch(1)
  \/ \E outcome \in UpstreamOutcomes : ProxyRelay(1, outcome)
  \/ CreateCheck(1)
  \/ NsRead(1, FALSE)
  \/ NsCreate(1, FALSE)
  \/ NsQuota(1, FALSE)
  \/ NsPolicy(1, FALSE)
  \/ CreateGcsFolder(1, FALSE)
  \/ \E fault \in BOOLEAN : K8sCreate(1, fault)
  \/ DbInsert(1)
  \/ CreateCatch(1)
  \/ Conclude(1)

SpecScoped == InitBootstrapped /\ [][NextScoped]_vars

\* Headers the authentication gate rejects: none, no scheme, an unknown key
RejectedHeaders ==
  { NoHeader, Header(PlaintextKey(1)), BearerHeader(<<"sk_live", "_", "bogus">>) }

(* The same routes, also called with credentials the gate rejects *)
NextGates ==
  \/ NextScoped
  \/ \E kind \in Kinds, hdr \in RejectedHeaders, name \in Names : Start(1, kind, hdr, name)

SpecGates == InitBootstrapped /\ [][NextGates]_vars

\* Two sandbox names a user may hold at once
ListNames == {"demo", "demo-1"}

(* GET /api/sandboxes beside creates of two names and a changing cluster *)
NextList ==
  \/ \E o \in k8sObjects : K8sExternalDelete(o)
  \/ \E o \in k8sObjects : K8sControllerReady(o)
  \/ \E name \in ListNames : Start(1, "create", BearerHeader(PlaintextKey(1)), name)
  \/ Start(1, "create", BearerHeader(PlaintextKey(2)), "demo")
  \/ \E hdr \in KeyHeaders : Start(1, ListKind, hdr, NULL)
  \/ ListRead(1)
  \/ \E failing \in SUBSET req[1].rows : ListFetch(1, failing)
  \/ CreateCheck(1)
  \/ NsRead(1, FALSE)
  \/ NsCreate(1, FALSE)
  \/ NsQuota(1, FALSE)
  \/ NsPolicy(1, FALSE)
  \/ CreateGcsFolder(1, FALSE)
  \/ \E fault \in BOOLEAN : K8sCreate(1, fault)
  \/ DbInsert(1)
  \/ CreateCatch(1)
  \/ Conclude(1)

SpecList == InitBootstrapped /\ [][NextList]_vars

(* Creates racing creates and deletes, beside the deletion of users: the   *)
(* first connection creates and deletes, the others create                 *)
NextRace ==
  \/ \E id \in IssuedIds : AdminDeleteUser(id)
  \/ \E kind \in {"create", "delete"}, hdr \in KeyHeaders, name \in Names :
       Start(1, kind, hdr, name)
  \/ \E r \in Req \ {1}, hdr \in KeyHeaders, name \in Names : Start(r, "create", hdr, name)
  \/ \E r \in Req : Authorize(r)
  \/ \E r \in Req : ScopedFetch(r)
  \/ \E r \in Req : K8sDelete(r, FALSE)
  \/ \E r \in Req : DbDelete(r)
  \/ \E r \in Req : CreateCheck(r)
  \/ \E r \in Req : NsRead(r, FALSE)
  \/ \E r \in Req : NsCreate(r, FALSE)
  \/ \E r \in Req : NsQuota(r, FALSE)
  \/ \E r \in Req : NsPolicy(r, FALSE)
  \/ \E r \in Req : CreateGcsFolder(r, FALSE)
  \/ \E r \in Req : K8sCreate(r, FALSE)
  \/ \E r \in Req : DbInsert(r)
  \/ \E r \in Req : CreateCatch(r)
  \/ \E r \in Req : Conclude(r)

SpecRace == InitBootstrapped /\ [][NextRace]_vars

(* The user cascade beside create and delete, one request at a time *)
NextCascade ==
  \/ \E id \in IssuedIds : AdminDeleteUser(id)
  \/ \E kind \in {"create", "delete"}, hdr \in KeyHeaders, name \in Names :
       Start(1, kind, hdr, name)
  \/ Authorize(1)
  \/ ScopedFetch(1)
  \/ \E fault \in BOOLEAN : K8sDelete(1, fault)
  \/ DbDelete(1)
  \/ CreateCheck(1)
  \/ NsRead(1, FALSE)
  \/ NsCreate(1, FALSE)
  \/ NsQuota(1, FALSE)
  \/ NsPolicy(1, FALSE)
  \/ CreateGcsFolder(1, FALSE)
  \/ \E fault \in BOOLEAN : K8sCreate(1, fault)
  \/ DbInsert(1)
  \/ CreateCatch(1)
  \/ Conclude(1)

SpecCascade == InitBootstrapped /\ [][NextCascade]_vars

(* The relay against a controller that reports service and readiness       *)
(* separately and an upstream that may stay silent                         *)
NextProxy ==
  \/ \E o \in k8sObjects : K8sExternalDelete(o)
  \/ \E o \in k8sObjects : K8sControllerService(o)
  \/ \E o \in k8sObjects, status \in {"True", "False"} : K8sControllerCondition(o, status)
  \/ \E kind \in {"create", "proxy"}, hdr \in KeyHeaders, name \in Names :
       Start(1, kind, hdr, name)
  \/ ProxyCheck(1)
  \/ ProxyFetch(1)
  \/ \E fault \in BOOLEAN : K8sGet(1, fault)
  \/ \E outcome \in UpstreamOutcomes \cup {Silent} : ProxyRelay(1, outcome)
  \/ CreateCheck(1)
  \/ NsRead(1, FALSE)
  \/ NsCreate(1, FALSE)
  \/ NsQuota(1, FALSE)
  \/ NsPolicy(1, FALSE)
  \/ CreateGcsFolder(1, FALSE)
  \/ \E fault \in BOOLEAN : K8sCreate(1, fault)
  \/ DbInsert(1)
  \/ CreateCatch(1)
  \/ Conclude(1)

SpecProxy == InitBootstrapped /\ [][NextProxy]_vars

(* POST /api/sandboxes with names of every form, one request at a time *)
NextCreate ==
  \/ \E hdr \in KeyHeaders, name \in RequestNames \cup {NULL} :
       Start(1, "create", hdr, name)
  \/ CreateCheck(1)
  \/ NsRead(1, FALSE)
  \/ NsCreate(1, FALSE)
  \/ NsQuota(1, FALSE)
  \/ NsPolicy(1, FALSE)
  \/ CreateGcsFolder(1, FALSE)
  \/ \E fault \in BOOLEAN : K8sCreate(1, fault)
  \/ DbInsert(1)
  \/ CreateCatch(1)
  \/ Conclude(1)

SpecCreate == InitBootstrapped /\ [][NextCreate]_vars

(* POST /api/sandboxes against a cluster whose quota and policy calls may fail *)
NextProvision ==
  \/ \E hdr \in KeyHeaders, name \in ListNames : Start(1, "create", hdr, name)
  \/ CreateCheck(1)
  \/ NsRead(1, FALSE)
  \/ NsCreate(1, FALSE)
  \/ \E fault \in BOOLEAN : NsQuota(1, fault)
  \/ \E fault \in BOOLEAN : NsPolicy(1, fault)
  \/ CreateGcsFolder(1, FALSE)
  \/ \E fault \in BOOLEAN : K8sCreate(1, fault)
  \/ DbInsert(1)
  \/ CreateCatch(1)
  \/ Conclude(1)

SpecProvision == InitBootstrapped /\ [][NextProvision]_vars

(* Pause and resume by two users, each with a sandbox, beside the controller *)
NextPause ==
  \/ \E o \in k8sObjects : K8sControllerReady(o)
  \/ \E kind \in {"create", "pause", "resume"}, hdr \in KeyHeaders, name \in Names :
       Start(1, kind, hdr, name)
  \/ Authorize(1)
  \/ ScopedFetch(1)
  \/ K8sGet(1, FALSE)
  \/ \E fault \in BOOLEAN : K8sReplace(1, fault)
  \/ CreateCheck(1)
  \/ NsRead(1, FALSE)
  \/ NsCreate(1, FALSE)
  \/ NsQuota(1, FALSE)
  \/ NsPolicy(1, FALSE)
  \/ CreateGcsFolder(1, FALSE)
  \/ \E fault \in BOOLEAN : K8sCreate(1, fault)
  \/ DbInsert(1)
  \/ CreateCatch(1)
  \/ Conclude(1)

SpecPause == InitBootstrapped /\ [][NextPause]_vars

(* Pause and resume of alice's sandbox on two connections, beside an edit *)
(* of the object by another client                                        *)
NextEdit ==
  \/ \E o \in k8sObjects : K8sExternalEdit(o)
  \/ \E kind \in {"create", "pause", "resume"} : Start(1, kind, BearerHeader(PlaintextKey(1)), "demo")
  \/ \E kind \in {"pause", "resume"} : Start(2, kind, BearerHeader(PlaintextKey(1)), "demo")
  \/ \E r \in Req : Authorize(r)
  \/ \E r \in Req : ScopedFetch(r)
  \/ \E r \in Req : K8sGet(r, FALSE)
  \/ \E r \in Req : K8sReplace(r, FALSE)
  \/ CreateCheck(1)
  \/ NsRead(1, FALSE)
  \/ NsCreate(1, FALSE)
  \/ NsQuota(1, FALSE)
  \/ NsPolicy(1, FALSE)
  \/ CreateGcsFolder(1, FALSE)
  \/ \E fault \in BOOLEAN : K8sCreate(1, fault)
  \/ DbInsert(1)
  \/ CreateCatch(1)
  \/ \E r \in Req : Conclude(r)

SpecEdit == InitBootstrapped /\ [][NextEdit]_vars

(* The routes behind authenticate with a credential store that can fail:   *)
(* the query of validateApiKey throws, the detached last_used_at update    *)
(* completes late or is rejected                                           *)
NextTouch ==
  \/ \E id \in IssuedKeyIds : AdminRevokeApiKey(id)
  \/ \E kind \in {MeKind, "create", "get"}, hdr \in KeyHeaders \cup RejectedHeaders,
        name \in Names : Start(1, kind, hdr, name)
  \/ \E kind \in {MeKind, "create", "get"}, hdr \in KeyHeaders \cup RejectedHeaders,
        name \in Names : StartThrows(1, kind, hdr, name)
  \/ LastUsedApplied(1)
  \/ LastUsedFailed(1)
  \/ Authorize(1)
  \/ ScopedFetch(1)
  \/ K8sGet(1, FALSE)
  \/ CreateCheck(1)
  \/ NsRead(1, FALSE)
  \/ NsCreate(1, FALSE)
  \/ NsQuota(1, FALSE)
  \/ NsPolicy(1, FALSE)
  \/ CreateGcsFolder(1, FALSE)
  \/ \E fault \in BOOLEAN : K8sCreate(1, fault)
  \/ DbInsert(1)
  \/ CreateCatch(1)
  \/ Conclude(1)

SpecTouch == InitBootstrapped /\ [][NextTouch]_vars

(* A create of alice's 'demo' that meets faults, answered 500, and then the *)
(* same create again on a second connection with every collaborator healthy *)
NextRetry ==
  \/ req[2].pc = "idle" /\ Start(1, "create", BearerHeader(PlaintextKey(1)), "demo")
  \/ /\ req[1].pc = "done" /\ req[1].resp.status = 500
     /\ req[2].pc = "idle"
     /\ Start(2, "create", BearerHeader(PlaintextKey(1)), "demo")
  \/ \E r \in Req : CreateCheck(r)
  \/ \E fault \in BOOLEAN : NsRead(1, fault)
  \/ \E fault \in BOOLEAN : NsCreate(1, fault)
  \/ \E fault \in BOOLEAN : NsQuota(1, fault)
  \/ \E fault \in BOOLEAN : NsPolicy(1, fault)
  \/ \E fault \in BOOLEAN : CreateGcsFolder(1, fault)
  \/ \E fault \in BOOLEAN : K8sCreate(1, fault)
  \/ DbInsert(1)
  \/ DbInsertThrows(1)
  \/ NsRead(2, FALSE)
  \/ NsCreate(2, FALSE)
  \/ NsQuota(2, FALSE)
  \/ NsPolicy(2, FALSE)
  \/ CreateGcsFolder(2, FALSE)
  \/ K8sCreate(2, FALSE)
  \/ DbInsert(2)
  \/ \E r \in Req : CreateCatch(r)
  \/ \E r \in Req : Conclude(r)

SpecRetry == InitBootstrapped /\ [][NextRetry]_vars

(* The admin deletes users who hold keys and sandboxes; the users call      *)
(* GET /api/me and create sandboxes                                        *)
NextAdminDelete ==
  \/ \E hdr \in {BearerHeader(AdminSecret), BearerHeader(PlaintextKey(1))}, id \in IssuedIds :
        AdminDeleteUserRequest(1, hdr, Header(AdminSecret), id)
  \/ \E hdr \in KeyHeaders : Start(2, MeKind, hdr, NULL)
  \/ \E hdr \in KeyHeaders : Start(2, "create", hdr, "demo")
  \/ CreateCheck(2)
  \/ NsRead(2, FALSE)
  \/ NsCreate(2, FALSE)
  \/ NsQuota(2, FALSE)
  \/ NsPolicy(2, FALSE)
  \/ CreateGcsFolder(2, FALSE)
  \/ \E fault \in BOOLEAN : K8sCreate(2, fault)
  \/ DbInsert(2)
  \/ CreateCatch(2)
  \/ Conclude(2)

SpecAdminDelete == InitBootstrapped /\ [][NextAdminDelete]_vars

\* The ids a DELETE /api/me/apikeys/:keyId names: the issued keys and an unknown id
RevokeIds == { Uuids[i] : i \in 1..(MaxKeyIds + 1) }

(* Self-service revocation by alice and bob, whose accounts the admin may  *)
(* deactivate or delete                                                    *)
NextMeRevoke ==
  \/ \E hdr \in KeyHeaders \cup RejectedHeaders, keyId \in RevokeIds :
        MeRevokeApiKey(1, hdr, keyId)
  \/ \E hdr \in KeyHeaders : Start(2, MeKind, hdr, NULL)
  \/ \E id \in IssuedIds, b \in BOOLEAN : AdminUpdateUser(id, b)
  \/ \E id \in IssuedIds : AdminDeleteUser(id)

SpecMeRevoke == InitBootstrapped /\ [][NextMeRevoke]_vars

(* The relay on one connection beside a delete of the same sandbox on the  *)
(* other                                                                   *)
NextProxyRace ==
  \/ \E o \in k8sObjects : K8sControllerReady(o)
  \/ \E kind \in {"create", "proxy"}, hdr \in KeyHeaders : Start(1, kind, hdr, "demo")
  \/ \E hdr \in KeyHeaders : Start(2, "delete", hdr, "demo")
  \/ ProxyCheck(1)
  \/ ProxyFetch(1)
  \/ K8sGet(1, FALSE)
  \/ \E outcome \in UpstreamOutcomes : ProxyRelay(1, outcome)
  \/ Authorize(2)
  \/ ScopedFetch(2)
  \/ K8sDelete(2, FALSE)
  \/ DbDelete(2)
  \/ CreateCheck(1)
  \/ NsRead(1, FALSE)
  \/ NsCreate(1, FALSE)
  \/ NsQuota(1, FALSE)
  \/ NsPolicy(1, FALSE)
  \/ CreateGcsFolder(1, FALSE)
  \/ \E fault \in BOOLEAN : K8sCreate(1, fault)
  \/ DbInsert(1)
  \/ CreateCatch(1)
  \/ \E r \in Req : Conclude(r)

SpecProxyRace == InitBootstrapped /\ [][NextProxyRace]_vars

(* The username alice given to a first user and, after that user was       *)
(* deleted, to a second one.  Connection 1 is the first user's; the second *)
(* user sends a single POST /api/sandboxes on connection 2                 *)
NextReuse ==
  \/ AdminCreateUser("alice")
  \/ \E id \in IssuedIds : AdminCreateApiKey(id, NoExpiry)
  \/ \E id \in IssuedIds : AdminDeleteUser(id)
  \/ \E kind \in {"create", "delete"}, hdr \in IssuedKeyHeaders :
       /\ authenticate(hdr).user.id = Uuids[1]
       /\ Start(1, kind, hdr, "demo")
  \/ \E hdr \in IssuedKeyHeaders :
       /\ authenticate(hdr).user.id = Uuids[2]
       /\ req[2].pc = "idle"
       /\ Start(2, "create", hdr, "demo")
  \/ Authorize(1)
  \/ ScopedFetch(1)
  \/ K8sDelete(1, FALSE)
  \/ DbDelete(1)
  \/ \E r \in Req : CreateCheck(r)
  \/ \E r \in Req : NsRead(r, FALSE)
  \/ \E r \in Req : NsCreate(r, FALSE)
  \/ \E r \in Req : NsQuota(r, FALSE)
  \/ \E r \in Req : NsPolicy(r, FALSE)
  \/ \E r \in Req : CreateGcsFolder(r, FALSE)
  \/ \E r \in Req : K8sCreate(r, FALSE)
  \/ \E r \in Req : DbInsert(r)
  \/ \E r \in Req : CreateCatch(r)
  \/ \E r \in Req : Conclude(r)

SpecReuse == Init /\ [][NextReuse]_vars

(* The legacy variant: discovery passes beside a changing orchestrator *)
NextLegacy ==
  \/ \E username \in Usernames, name \in Names : K8sExternalCreate(username, name)
  \/ \E o \in k8sObjects : K8sControllerReady(o)
  \/ \E o \in k8sObjects, status \in {"True", "False"} : K8sControllerCondition(o, status)
  \/ \E o \in k8sObjects : K8sExternalDelete(o)
  \/ DiscoverStart
  \/ \E fault \in BOOLEAN : DiscoverList(fault)
  \/ DiscoverApply
  \/ \E username \in Usernames, name \in Names, outcome \in UpstreamOutcomes :
        LegacyProxy(1, username, name, outcome)

SpecLegacy == Init /\ [][NextLegacy]_vars

(* Two POST /api/sandboxes calls and nothing else *)
NextCreateRace ==
  \/ \E r \in Req, hdr \in KeyHeaders, name \in Names :
       req[r].pc = "idle" /\ Start(r, "create", hdr, name)
  \/ \E r \in Req : CreateCheck(r)
  \/ \E r \in Req : NsRead(r, FALSE)
  \/ \E r \in Req : NsCreate(r, FALSE)
  \/ \E r \in Req : NsQuota(r, FALSE)
  \/ \E r \in Req : NsPolicy(r, FALSE)
  \/ \E r \in Req : CreateGcsFolder(r, FALSE)
  \/ \E r \in Req : K8sCreate(r, FALSE)
  \/ \E r \in Req : DbInsert(r)
  \/ \E r \in Req : CreateCatch(r)
  \/ \E r \in Req : Conclude(r)

SpecCreateRace == InitBootstrapped /\ [][NextCreateRace]_vars

\* The name each of two concurrent creates of one user asks for
RaceName(r) == IF r = 1 THEN "demo" ELSE "demo-1"

(* Two POST /api/sandboxes calls of one user, for different names *)
NextNamespaceRace ==
  \/ \E r \in Req :
       req[r].pc = "idle" /\ Start(r, "create", BearerHeader(PlaintextKey(1)), RaceName(r))
  \/ \E r \in Req : CreateCheck(r)
  \/ \E r \in Req : NsRead(r, FALSE)
  \/ \E r \in Req : NsCreate(r, FALSE)
  \/ \E r \in Req : NsQuota(r, FALSE)
  \/ \E r \in Req : NsPolicy(r, FALSE)
  \/ \E r \in Req : CreateGcsFolder(r, FALSE)
  \/ \E r \in Req : K8sCreate(r, FALSE)
  \/ \E r \in Req : DbInsert(r)
  \/ \E r \in Req : CreateCatch(r)
  \/ \E r \in Req : Conclude(r)

SpecNamespaceRace == InitBootstrapped /\ [][NextNamespaceRace]_vars

----------------------------------------------------------------------------
(* Properties *)

\* The sandbox record (userId, name), if the ownership store holds one
HasRecord(userId, name) ==
  \E s \in sandboxes : s.user_id = userId /\ s.name = name

\* The credential in the request's header is a key of the request's user
KeyOfUser(q) ==
  /\ startsWith(q.hdr.value, Bearer)
  /\ \E k \in api_keys :
        /\ k.key_hash = hashApiKey(substring(q.hdr.value, 7))
        /\ k.user_id = q.user.id

\* The positions of a sandbox-scoped handler and of the relay behind their
\* ownership check
ScopedBody == {"handler", "k8sGet", "k8sReplace", "k8sDelete", "dbDelete", "audit"}
ProxyBody == {"fetch", "k8sGet", "relay"}
ScopedOps == {"get", "replace", "delete", "relay"}

\* C1: in a sandbox-scoped request (GET, DELETE /api/sandboxes/:name, pause,
\* resume, /proxy/:name/*) every orchestrator get, replace, delete and every relay
\* targets the (namespace, k8s_resource_name) of a record whose user_id is the
\* request's user, and the handler body runs only behind the authentication gate
\* and the ownership check: at every position of the body the request carries a
\* user whose key it presented, the check has passed, and the user's record of
\* that name exists (until the delete handler itself removes it).
C1_OwnTargetsOnly ==
  \A r \in Req :
    LET q == req[r]
        removed == q.kind = "delete" /\ q.call.op = "delete" /\ q.call.answer = "ok"
                   /\ q.pc \in {"audit", "done"} IN
    /\ (q.kind \in ScopedKinds \cup {"proxy"} /\ q.pc \notin {"idle", "done", "hung"})
         => q.user # NoUser /\ KeyOfUser(q)
    /\ ((q.kind \in ScopedKinds /\ q.pc \in ScopedBody)
          \/ (q.kind = "proxy" /\ q.pc \in ProxyBody))
         => q.owned /\ (HasRecord(q.user.id, q.name) \/ removed)
    /\ (q.kind \in ScopedKinds \cup {"proxy"} /\ q.call.op \in ScopedOps)
         => /\ q.owned /\ q.user # NoUser /\ KeyOfUser(q)
            /\ q.call.owner = q.user.id
            /\ \/ removed
               \/ \E s \in sandboxes :
                    /\ s.user_id = q.user.id /\ s.name = q.name
                    /\ s.namespace = q.call.namespace
                    /\ s.k8s_resource_name = q.call.name

\* C1 witness: alice has resumed her sandbox and a relay to it was answered
C1_Witness ==
  \E r \in Req :
    /\ req[r].kind = "proxy" /\ req[r].pc = "done"
    /\ req[r].call.op = "relay" /\ req[r].call.answer = "json200"
    /\ req[r].user.username = "alice"
    /\ \E a \in audit_logs : a.action = "resume_sandbox" /\ a.status = "success"

\* A request stands at its ownership check: the authorizeSandboxAccess middleware
\* or the inline check of the relay
AtOwnershipCheck(q) ==
  (q.kind \in ScopedKinds /\ q.pc = "authorize") \/ (q.kind = "proxy" /\ q.pc = "handler")

\* C2: when an authenticated user A has no sandbox record named n, the ownership
\* check of a request for n (the authorizeSandboxAccess middleware and the inline
\* check of /proxy/:name/*) ends the request with 403, 'Forbidden', 'You do not
\* have access to this sandbox': one and the same response whether another user
\* owns a sandbox named n or nobody does.
C2_DenyIsUniform ==
  [][\A r \in Req :
       (/\ AtOwnershipCheck(req[r]) /\ req'[r] # req[r]
        /\ ~HasRecord(req[r].user.id, req[r].name))
       => req'[r].pc = "done" /\ req'[r].resp = Forbidden /\ ~req'[r].owned]_vars

\* C2 witness: the ownership check has denied a tenant a name another tenant owns
C2_Witness ==
  \E r \in Req :
    /\ req[r].pc = "done" /\ req[r].kind \in ScopedKinds \cup {"proxy"}
    /\ req[r].user # NoUser /\ req[r].resp = Forbidden
    /\ ~HasRecord(req[r].user.id, req[r].name)
    /\ \E s \in sandboxes : s.name = req[r].name /\ s.user_id # req[r].user.id

\* The header is absent, does not begin with the seven characters 'Bearer ', or
\* has nothing after them
Malformed(hdr) ==
  \/ ~hdr.present
  \/ Len(hdr.value) < Len(Bearer)
  \/ SubSeq(hdr.value, 1, Len(Bearer)) # Bearer
  \/ Len(hdr.value) = Len(Bearer)

\* C3: a request whose Authorization header is absent, does not start with
\* 'Bearer ', or carries an empty token is answered 401 by authenticate, which
\* issues no credential store query and does not call the next handler (no user
\* is attached and the handler's answer is never given).
C3_MalformedRejected ==
  \A r \in Req :
    (req[r].pc = "done" /\ req[r].kind = MeKind /\ Malformed(req[r].hdr))
    => /\ req[r].resp.status = 401 /\ req[r].resp.error = "Unauthorized"
       /\ ~req[r].queried
       /\ req[r].user = NoUser

\* C3 witness: 'bearer ' in lower case before a key that is stored and valid was
\* turned away for its format
C3_Witness ==
  \E r \in Req :
    /\ req[r].pc = "done" /\ req[r].kind = MeKind
    /\ req[r].hdr = Header(<<"b", "e", "a", "r", "e", "r", " ">> \o PlaintextKey(1))
    /\ validateApiKey(hashApiKey(PlaintextKey(1))).valid
    /\ req[r].resp.status = 401

\* The token of the header is the plaintext of a stored key that is revoked or
\* expired, or whose user is deactivated
StoredButUnusable(hdr) ==
  /\ ~Malformed(hdr)
  /\ \E k \in api_keys, u \in users :
        /\ k.user_id = u.id
        /\ k.key_hash = hashApiKey(SubSeq(hdr.value, Len(Bearer) + 1, Len(hdr.value)))
        /\ (~k.is_active \/ (\E t \in k.expires_at : t < now) \/ ~u.is_active)

\* C4: a request whose token digest matches a stored key is answered 401 and
\* does not reach the handler whenever, at the time of validation, the key is
\* inactive, the key's expires_at is earlier than now, or the key's user is
\* inactive.
C4_UnusableKeyRejected ==
  [][\A r \in Req :
       (req'[r] # req[r] /\ req'[r].kind = MeKind /\ StoredButUnusable(req'[r].hdr))
       => /\ req'[r].pc = "done" /\ req'[r].resp.status = 401
          /\ req'[r].user = NoUser]_vars

\* C4 witness: a key past its expires_at, active and of an active user, was
\* answered 'API key has expired'
C4_Witness ==
  \E r \in Req :
    /\ req[r].pc = "done" /\ req[r].kind = MeKind
    /\ req[r].resp = Resp(401, "Unauthorized", "API key has expired")
    /\ StoredButUnusable(req[r].hdr)

\* C5: of two concurrent POST /api/sandboxes calls by the same user with the same
\* name, exactly one is answered 201 and the other 409, and exactly one sandbox
\* record for (user, name) exists afterwards.  (Refuted: when both calls pass the
\* existence check before either has inserted, the loser fails in createNamespace,
\* in createNamespacedCustomObject or in the INSERT, and the catch answers 500.)
C5_OneCreatedOneConflict ==
  \A r1, r2 \in Req :
    (/\ r1 # r2
     /\ req[r1].kind = "create" /\ req[r2].kind = "create"
     /\ req[r1].pc = "done" /\ req[r2].pc = "done"
     /\ req[r1].user # NoUser /\ req[r1].user = req[r2].user
     /\ req[r1].name = req[r2].name)
    => /\ {req[r1].resp.status, req[r2].resp.status} = {201, 409}
       /\ Cardinality({ s \in sandboxes : s.user_id = req[r1].user.id
                                           /\ s.name = req[r1].name }) = 1

\* C6: in every reachable state of the ownership store no two sandbox records
\* share (user_id, name) and no two share (namespace, k8s_resource_name), under
\* every interleaving of sandbox creates, sandbox deletes and user deletions.
C6_RecordKeysUnique ==
  \A s1, s2 \in sandboxes :
    (\/ (s1.user_id = s2.user_id /\ s1.name = s2.name)
     \/ (s1.namespace = s2.namespace /\ s1.k8s_resource_name = s2.k8s_resource_name))
    => s1 = s2

\* C6 witness: a create that passed the existence check reached its INSERT when
\* another request had already inserted the same (user_id, name), and was refused
C6_Witness ==
  \E r \in Req :
    /\ req[r].kind = "create" /\ req[r].pc = "catch"
    /\ req[r].resp = InternalError("insert violates a constraint")
    /\ HasRecord(req[r].user.id, req[r].name)

\* The provisioning steps of POST /api/sandboxes in the order the claim demands
ProvisioningOrder == <<"folder", "object", "record">>

\* What the catch of POST /api/sandboxes answers when ensuring the namespace,
\* provisioning the folder or submitting the object has failed
ProvisioningFailures ==
  { InternalError(m) : m \in {"readNamespace failed", "createNamespace failed",
                              "createGCSFolder failed",
                              "createNamespacedCustomObject failed"} }

\* In every state: the steps a create has completed are an initial part of
\* folder, object, record; a create that failed before the INSERT has no record
C7_StepsInOrder ==
  \A r \in Req :
    LET q == req[r] IN
    q.kind = "create" =>
      /\ Len(q.steps) <= Len(ProvisioningOrder)
      /\ q.steps = SubSeq(ProvisioningOrder, 1, Len(q.steps))
      /\ (q.pc \in {"catch", "done"} /\ q.resp \in ProvisioningFailures)
           => Len(q.steps) < Len(ProvisioningOrder) /\ ~HasRecord(q.user.id, q.name)

\* In every step: a record enters the ownership store only from a create that has
\* provisioned the folder and whose object the orchestrator accepted
C7_InsertIsLast ==
  \A s \in sandboxes' \ sandboxes :
    \E r \in Req :
      LET q == req[r] IN
      /\ q.kind = "create" /\ q.pc = "dbInsert"
      /\ q.user.id = s.user_id /\ q.name = s.name
      /\ q.steps = <<"folder", "object">>
      /\ GcsFolderPath(q.user.username, q.name) \in gcsFolders
      /\ q.call.op = "create" /\ q.call.answer = "ok"
      /\ q.call.namespace = s.namespace /\ q.call.name = s.k8s_resource_name

\* C7: POST /api/sandboxes inserts the ownership record only after the storage
\* folder was provisioned and the orchestrator accepted the object, in that order;
\* and if ensuring the namespace, provisioning the folder or submitting the
\* object fails, no ownership record is inserted.
C7_RecordAfterProvisioning == []C7_StepsInOrder /\ [][C7_InsertIsLast]_vars

\* C7 witness: the orchestrator refused alice's object after her folder was
\* provisioned and she has no record, while bob's create went through
C7_Witness ==
  \E r \in Req :
    /\ req[r].kind = "create" /\ req[r].pc = "done"
    /\ req[r].resp = InternalError("createNamespacedCustomObject failed")
    /\ req[r].steps = <<"folder">>
    /\ GcsFolderPath(req[r].user.username, req[r].name) \in gcsFolders
    /\ ~HasRecord(req[r].user.id, req[r].name)
    /\ \E s \in sandboxes : s.user_id # req[r].user.id

\* C8: a sandbox record is removed from the ownership store only after its
\* orchestrator object has been torn down, by DELETE /api/sandboxes/:name and by
\* the cascade of DELETE /api/admin/users/:userId alike: no step removes a record
\* whose (namespace, k8s_resource_name) still names a live orchestrator object.
\* (Refuted: deleting a user removes the records by ON DELETE CASCADE and makes
\* no orchestrator call.)
C8_TeardownBeforeRemoval ==
  [][\A s \in sandboxes \ sandboxes' :
       K8sFind(s.namespace, s.k8s_resource_name) = {}]_vars

\* The audit trail shows a successful DELETE of name by the user
DeletedBefore(userId, name) ==
  \E a \in audit_logs :
    /\ a.user_id = userId /\ a.action = "delete_sandbox"
    /\ a.status = "success" /\ a.resource_id = name

\* A DELETE by a user who has deleted that name before and has not created it
\* again, standing at or behind its ownership check
SecondDelete(q) ==
  /\ q.kind = "delete" /\ q.user # NoUser
  /\ DeletedBefore(q.user.id, q.name)
  /\ ~HasRecord(q.user.id, q.name)

C9_SecondIs404 ==
  \A r \in Req :
    (req[r].pc = "done" /\ SecondDelete(req[r]) /\ req[r].resp # Success("delete"))
    => req[r].resp.status = 404

C9_SecondChangesNothing ==
  \A r \in Req :
    (req[r].pc = "authorize" /\ SecondDelete(req[r]) /\ req'[r] # req[r])
    => UNCHANGED <<dbVars, k8sVars, gcsFolders>>

\* C9: after a DELETE /api/sandboxes/:name by the owner has succeeded, a second
\* DELETE of the same name by the same user is answered 404, not 500 and not any
\* other status, and changes nothing.  (Refuted: the ownership gate answers the
\* second DELETE 403 before the handler's own 404 can be given.)
C9_SecondDeleteNotFound == []C9_SecondIs404 /\ [][C9_SecondChangesNothing]_vars

\* C10: when the orchestrator reports not-found as DELETE /api/sandboxes/:name
\* deletes the object (it was removed out-of-band), the handler treats the object
\* as already deleted, removes the ownership record and answers success, not 500.
\* (Refuted: deleteNamespacedCustomObject throws on the 404, the catch answers
\* 500 and the record stays.)
C10_NotFoundIsAlreadyDeleted ==
  \A r \in Req :
    (/\ req[r].kind = "delete" /\ req[r].pc = "done"
     /\ req[r].call.op = "delete" /\ req[r].call.answer = "notfound")
    => /\ req[r].resp = Success("delete")
       /\ ~HasRecord(req[r].user.id, req[r].name)

\* C11: POST /api/sandboxes with a name that is present but does not match
\* ^[a-z0-9]([-a-z0-9]*[a-z0-9])?$ is answered 400 and performs no orchestrator
\* call, no object-store call and no ownership-record insert.  (Refuted: the
\* handler only tests that a name is present; a malformed name goes through
\* namespace, folder and object provisioning and ends 500.)
C11_MalformedNameIs400 ==
  \A r \in Req :
    LET q == req[r] IN
    (/\ q.kind = "create" /\ q.user # NoUser /\ q.name # NULL
     /\ ~NameFormat(q.name) /\ q.pc # "idle")
    => /\ q.pc \in {"handler", "done"}
       /\ q.pc = "done" => q.resp.status = 400
       /\ q.call.op = NULL /\ q.steps = <<>>
       /\ GcsFolderPath(q.user.username, q.name) \notin gcsFolders
       /\ ~HasRecord(q.user.id, q.name)

\* C12: POST /api/sandboxes by a user who already has a record with that name is
\* answered 409 and makes no orchestrator call, no object-store call and no
\* change to the ownership store: the step the handler takes on such a request is
\* its last, and it leaves every store as it was.
C12_DuplicateIs409 ==
  [][\A r \in Req :
       (/\ req[r].kind = "create" /\ req[r].pc = "handler" /\ req[r].name # NULL
        /\ HasRecord(req[r].user.id, req[r].name)
        /\ req'[r] # req[r])
       => /\ req'[r].pc = "done"
          /\ req'[r].resp = Resp(409, "Conflict", "Sandbox already exists")
          /\ req'[r].call = NoCall /\ req'[r].steps = <<>>
          /\ UNCHANGED <<dbVars, k8sVars, gcsFolders>>]_vars

\* C12 witness: a create for a name its user already holds was answered 409
C12_Witness ==
  \E r \in Req :
    /\ req[r].kind = "create" /\ req[r].pc = "done"
    /\ req[r].resp.status = 409
    /\ HasRecord(req[r].user.id, req[r].name)
    /\ req[r].call = NoCall

\* The orchestrator's current object for the sandbox record a request holds
CurrentObject(q) ==
  CHOOSE o \in K8sFind(q.sandbox.namespace, q.sandbox.k8s_resource_name) : TRUE

\* The step in which the relay reads the orchestrator object decides by what
\* the orchestrator holds at that moment
C13_DecidedByThisRead ==
  \A r \in Req :
    (/\ req[r].kind = "proxy" /\ req[r].pc = "k8sGet" /\ req'[r] # req[r]
     /\ req'[r].call.answer = "ok")
    => LET o == CurrentObject(req[r]) IN
       IF o.serviceFQDN = NULL
       THEN /\ req'[r].pc = "done"
            /\ req'[r].resp = Resp(503, "Service Unavailable", "Sandbox service not ready")
       ELSE IF o.ready # "True"
       THEN /\ req'[r].pc = "done"
            /\ req'[r].resp = Resp(503, "Service Unavailable", "Sandbox not ready")
       ELSE req'[r].pc = "relay" /\ req'[r].obj = o

\* A request arrives holding no object, and stands before the upstream call only
\* with an object that names a service and is Ready
C13_ForwardOnlyReady ==
  \A r \in Req :
    /\ req[r].pc \in {"handler", "authorize", "fetch", "k8sGet"} => req[r].obj = NoObject
    /\ (req[r].kind = "proxy" /\ req[r].pc \in {"relay", "awaiting"})
         => /\ req[r].obj.serviceFQDN # NULL /\ req[r].obj.ready = "True"
            /\ req[r].call.op \in {"get", "relay"}
    /\ (req[r].kind = "proxy" /\ req[r].call.op = "relay")
         => req[r].pc \in {"awaiting", "done"}

\* C13: /proxy/:name/* forwards a request upstream only if the orchestrator
\* object read during that same request has a non-empty serviceFQDN and a Ready
\* condition with status 'True'; otherwise it answers 503, 'Sandbox service not
\* ready' when serviceFQDN is missing (tested first) and 'Sandbox not ready' when
\* Ready is not 'True'; nothing an earlier request resolved is reused.
C13_RelayNeedsReadyObject == []C13_ForwardOnlyReady /\ [][C13_DecidedByThisRead]_vars

\* C13 witness: a relay request was refused as not ready although the object
\* names its service
C13_Witness ==
  \E r \in Req :
    /\ req[r].kind = "proxy" /\ req[r].pc = "done"
    /\ req[r].resp = Resp(503, "Service Unavailable", "Sandbox not ready")
    /\ \E o \in k8sObjects :
          /\ o.namespace = UserNamespace(req[r].user.username) /\ o.name = req[r].name
          /\ o.serviceFQDN # NULL /\ o.ready = "False"

\* C14: once a relay request is forwarded, the upstream is called exactly once
\* (the step that calls it is the handler's last: no retry) and the caller
\* receives the upstream's status code and JSON body as they are; if the
\* connection fails or the upstream's body is not JSON the caller receives 500.
C14_MirrorOrInternal ==
  [][\A r \in Req :
       (/\ req[r].kind = "proxy" /\ req[r].pc = "relay"
        /\ (req'[r].call # req[r].call \/ req'[r].pc # req[r].pc)
        /\ req'[r].call.answer # Silent)
       => /\ req[r].call.op # "relay" /\ req'[r].call.op = "relay"
          /\ req'[r].pc = "done"
          /\ req'[r].call.answer = "json200"
               => req'[r].resp = Resp(200, NULL, "upstream body")
          /\ req'[r].call.answer = "json404"
               => req'[r].resp = Resp(404, NULL, "upstream body")
          /\ req'[r].call.answer \in {"notJson", "unreachable"}
               => req'[r].resp.status = 500]_vars

\* C14 witness: the upstream's 404 and its body were handed to the caller
C14_Witness ==
  \E r \in Req :
    /\ req[r].kind = "proxy" /\ req[r].pc = "done"
    /\ req[r].call.op = "relay" /\ req[r].call.answer = "json404"
    /\ req[r].resp = Resp(404, NULL, "upstream body")

\* The steps the relay handler can take for a request
ProxyStep(r) ==
  \/ ProxyCheck(r)
  \/ ProxyFetch(r)
  \/ \E fault \in BOOLEAN : K8sGet(r, fault)
  \/ \E outcome \in UpstreamOutcomes \cup {Silent} : ProxyRelay(r, outcome)

\* C15: every forwarded relay request eventually completes with a response to the
\* caller even when the upstream never answers: the relay call is abandoned after
\* a bounded wait and surfaces as a 500.  Stated for finite runs: a relay request
\* that has not been answered always has a step it can take.  (Refuted: the fetch
\* is given no timeout and no abort signal; while the upstream is silent the
\* handler has no step.)
C15_RelayAlwaysCompletes ==
  \A r \in Req :
    (req[r].kind = "proxy" /\ req[r].pc \notin {"idle", "done"})
    => ENABLED ProxyStep(r)

\* The audit entries that record the creation of key k: written before any
\* revocation of k
CreationEntries(k) ==
  { a \in audit_logs : a.resource_id = k.id
                        /\ a.action \in {"admin_create_api_key", "create_api_key"} }

\* The request r answered in this step presents the plaintext of an issued key
\* that has no active row
PresentsRevoked(r) ==
  /\ req'[r] # req[r]
  /\ \E i \in 1..MaxKeyIds :
        /\ i < nextKeyId
        /\ req'[r].hdr = BearerHeader(PlaintextKey(i))
        /\ ~\E k \in api_keys : k.id = Uuids[i] /\ k.is_active

Rejected401(r) ==
  req'[r].pc = "done" /\ req'[r].resp.status = 401 /\ req'[r].user = NoUser

UserDeleted(userId) == getUserById(userId) # {} /\ users' = deleteUser(userId)

ReturnsKey(r) ==
  /\ req'[r] # req[r]
  /\ req'[r].kind \in {"adminCreateKey", "meCreateKey"}
  /\ req'[r].resp.status = 201

\* The key row k is usable at the time now: active, of an active user, with no
\* expiry or an expiry in the future
Usable(k) ==
  /\ k.is_active
  /\ \E u \in users : u.id = k.user_id /\ u.is_active
  /\ \A t \in k.expires_at : t > now

\* C17 (creation): the plaintext a key creation returns hashes to exactly the
\* key_hash of the row that creation stored, for the user it was created for;
\* and when that user is active and the expiry is absent or in the future, the
\* authentication gate accepts the plaintext as that user.
C17_ReturnedHashesToStored ==
  \A r \in Req : ReturnsKey(r) =>
    \E k \in api_keys' \ api_keys :
      /\ req'[r].body.key_info = {KeyInfo(k)}
      /\ hashApiKey(req'[r].body.api_key) = k.key_hash
      /\ k.user_id = IF req'[r].kind = "meCreateKey" THEN req'[r].user.id ELSE req'[r].name
      /\ Usable(k)' =>
            \E i \in 1..MaxKeyIds :
              /\ req'[r].body.api_key = PlaintextKey(i)
              /\ authenticate(BearerHeader(PlaintextKey(i)))'.next
              /\ authenticate(BearerHeader(PlaintextKey(i)))'.user.id = k.user_id

\* C17 (use): a request bearing the plaintext of a usable key passes the
\* authentication gate as the key's user.
C17_PlaintextAuthenticates ==
  \A r \in Req, i \in 1..MaxKeyIds, k \in api_keys :
    (/\ req'[r] # req[r] /\ req'[r].kind = MeKind
     /\ req'[r].hdr = BearerHeader(PlaintextKey(i))
     /\ k.id = Uuids[i] /\ Usable(k))
    => req'[r].resp.status = 200 /\ req'[r].user.id = k.user_id

\* C17: for every key returned by key creation (admin or self-service) for an
\* active user with no expiry or a future expiry, hashing the returned
\* plaintext yields exactly the stored key_hash, and a request bearing the
\* plaintext authenticates as that user.
C17_RoundTrip == [][C17_ReturnedHashesToStored /\ C17_PlaintextAuthenticates]_vars

\* C17 witness: a key created through the self-service route was presented on
\* GET /api/me and the request was answered 200 as the key's user
C17_Witness ==
  \E r \in Req, k \in api_keys, a \in audit_logs :
    /\ a.action = "create_api_key" /\ a.resource_id = k.id
    /\ req[r].kind = MeKind /\ req[r].pc = "done"
    /\ hashApiKey(substring(req[r].hdr.value, 7)) = k.key_hash
    /\ req[r].resp.status = 200 /\ req[r].user.id = k.user_id

\* The plaintexts of all keys the store can issue
Plaintexts == { PlaintextKey(i) : i \in 1..MaxKeyIds }

\* C18 (store): a key row holds the digest and the display prefix of the key
\* and nothing else of it: no column holds a plaintext.
C18_StoreHoldsNoPlaintext ==
  \A k \in api_keys :
    /\ DOMAIN k = {"id", "user_id", "key_hash", "key_prefix", "expires_at",
                    "last_used_at", "is_active"}
    /\ k.key_hash \notin Plaintexts /\ k.key_prefix \notin Plaintexts
    /\ \E i \in 1..MaxKeyIds : /\ k.key_hash = hashApiKey(PlaintextKey(i))
                                /\ k.key_prefix = getApiKeyPrefix(PlaintextKey(i))

\* C18 (answers): an answer carries a plaintext only as api_key, and only the
\* 201 answer of the call that created that key; key_info and the entries of a
\* listing have no key_hash field and no plaintext.
C18_OnlyCreatingAnswerShows ==
  \A r \in Req : req'[r] # req[r] =>
    /\ req'[r].body.api_key # <<>> =>
          /\ req'[r].body.api_key = PlaintextKey(nextKeyId)
          /\ nextKeyId' = nextKeyId + 1
          /\ req'[r].resp.status = 201
          /\ req'[r].kind \in {"adminCreateKey", "meCreateKey"}
    /\ \A e \in req'[r].body.key_info \cup req'[r].body.api_keys :
          /\ DOMAIN e \cap {"key_hash", "api_key", "plaintext_key"} = {}
          /\ e.key_prefix \notin Plaintexts

\* C18 (once): the call that creates a key answers with its plaintext.
C18_CreatingAnswerShows ==
  nextKeyId' # nextKeyId =>
    \E r \in Req : req'[r].body.api_key = PlaintextKey(nextKeyId)
                     /\ req'[r].resp.status = 201

\* C18: the plaintext of an API key never appears in the credential store (only
\* key_hash and key_prefix are stored) and appears in exactly one response, the
\* 201 response of the call that created it; key listings expose neither the
\* plaintext nor key_hash.
C18_PlaintextShownOnce ==
  /\ []C18_StoreHoldsNoPlaintext
  /\ [][C18_OnlyCreatingAnswerShows /\ C18_CreatingAnswerShows]_vars

\* C18 witness: a listing was answered with the entry of a stored key
C18_Witness ==
  \E r \in Req, k \in api_keys :
    /\ req[r].kind \in {"adminListKeys", "meListKeys"} /\ req[r].pc = "done"
    /\ req[r].resp.status = 200
    /\ KeyListing(k) \in req[r].body.api_keys

AdminKinds == {"adminCreateKey", "adminListKeys"}

\* The request was answered by a handler behind the admin gate, not by the gate
ReachedAdminHandler(rq) ==
  rq.kind \in AdminKinds /\ rq.pc = "done" /\ rq.resp.status \in {200, 201, 404}

\* ADMIN_API_KEY is set to a key
Configured(adminApiKey) == adminApiKey.present /\ adminApiKey.value # <<>>

\* The token of the header is the plaintext of a key the authentication gate
\* accepts
ValidUserKey(hdr) ==
  \E i \in 1..MaxKeyIds :
    hdr = BearerHeader(PlaintextKey(i)) /\ validateApiKey(hashApiKey(PlaintextKey(i))).valid

\* C19: a request reaches an /api/admin handler if and only if its
\* Authorization header is 'Bearer ' followed by a token exactly equal to the
\* configured ADMIN_API_KEY; the admin gate never queries the credential store,
\* never attaches a user principal, never accepts a valid user API key as
\* admin, and answers a Bearer request with 500, never 403, when ADMIN_API_KEY
\* is unset.
C19_AdminGate ==
  [][\A r \in Req :
       (req'[r] # req[r] /\ req'[r].kind \in AdminKinds) =>
         LET rq == req'[r] IN
         /\ ReachedAdminHandler(rq) <=>
               /\ Configured(rq.env)
               /\ rq.hdr.present /\ rq.hdr.value = Bearer \o rq.env.value
         /\ ~rq.queried /\ rq.user = NoUser
         /\ ValidUserKey(rq.hdr) => ~ReachedAdminHandler(rq) /\ rq.resp.status \in {403, 500}
         /\ (~Configured(rq.env) /\ rq.hdr.present /\ startsWith(rq.hdr.value, Bearer))
              => rq.resp = Resp(500, "Internal server error",
                                "Admin authentication not configured")]_vars

\* C19 witness: a key the authentication gate accepts was presented to an admin
\* route with ADMIN_API_KEY configured and was answered 403 by the gate
C19_Witness ==
  \E r \in Req :
    /\ req[r].kind \in AdminKinds /\ req[r].pc = "done"
    /\ Configured(req[r].env) /\ ValidUserKey(req[r].hdr)
    /\ req[r].resp = Resp(403, "Forbidden", "Invalid admin API key")

\* C19 second witness: a Bearer request was answered 500 with no admin key set
C19_UnsetWitness ==
  \E r \in Req :
    /\ req[r].kind \in AdminKinds /\ ~req[r].env.present
    /\ req[r].hdr = BearerHeader(AdminSecret) /\ req[r].resp.status = 500

\* C20: whenever a sandbox lifecycle handler (create, delete, pause, resume)
\* fails after the gates have passed, an audit entry with status 'failed' is
\* written for that request before it concludes.  (Refuted: only the catch of
\* create writes one; the catches of delete, pause and resume answer 500 and
\* write nothing.)
C20_FailureIsAudited ==
  \A r \in Req :
    (/\ req[r].pc = "done"
     /\ req[r].kind \in {"create", "delete", "pause", "resume"}
     /\ req[r].resp.status = 500)
    => \E a \in audit_logs :
         /\ a.status = "failed"
         /\ a.action = AuditAction(req[r].kind)
         /\ a.user_id = req[r].user.id

\* C21: a failure of the audit write never alters a request's outcome: a create
\* whose record insert succeeded is answered 201 even when the audit insert
\* fails, and a failing audit insert in the failure path never leaves the
\* request without a response.  (Refuted: createAuditLog rethrows; the throw
\* after the insert turns the 201 into the catch, and a throw inside the catch
\* leaves the request unanswered.)
C21_AuditFailureChangesNothing ==
  \A r \in Req : req[r].kind = "create" =>
    /\ req[r].pc # "hung"
    /\ (req[r].pc = "done" /\ \E i \in DOMAIN req[r].steps : req[r].steps[i] = "record")
         => req[r].resp.status = 201

\* C22: audit entries are append-only: after any request, user deletion
\* included, every audit entry written before is still present with every
\* field, its user link included, unchanged.  (Refuted: deleting a user sets
\* user_id of that user's entries to NULL.)
C22_AuditAppendOnly == [][audit_logs \subseteq audit_logs']_vars

\* The request r is answered in this step by a gate: 401 by authenticate, or
\* 403 by the ownership check
GateRejects(r) ==
  /\ req'[r] # req[r] /\ req'[r].pc = "done"
  /\ req'[r].kind \in Kinds
  /\ req'[r].resp.status \in {401, 403}

\* C23: a request rejected by the authentication gate (401) or by the ownership
\* gate (403) leaves the sandbox records, the orchestrator, the object store
\* and the audit log unchanged: no handler logic runs and no audit entry is
\* written.
C23_RejectionChangesNothing ==
  [][\A r \in Req : GateRejects(r) =>
       /\ UNCHANGED <<sandboxes, namespaces, k8sObjects, gcsFolders, audit_logs>>
       /\ req'[r].call = NoCall /\ req'[r].steps = <<>>
       /\ ~req'[r].owned]_vars

\* C23 witness: a delete of a sandbox that exists, record and object, was
\* answered 403 to a user who does not own it
C23_Witness ==
  \E r \in Req, sb \in sandboxes :
    /\ req[r].kind = "delete" /\ req[r].pc = "done" /\ req[r].resp = Forbidden
    /\ sb.name = req[r].name /\ sb.user_id # req[r].user.id
    /\ K8sFind(sb.namespace, sb.k8s_resource_name) # {}

\* The listing of request r has been answered
Listed(rq) == rq.kind = ListKind /\ rq.pc = "done" /\ rq.resp.status = 200

\* C24 (entries): the listing has exactly one entry per sandbox record of the
\* caller, with the record's name and namespace, and none of another user.
\* With one request at a time the records are those of the current state.
C24_OneEntryPerOwnRecord ==
  \A r \in Req : Listed(req[r]) =>
    LET own == { sb \in sandboxes : sb.user_id = req[r].user.id } IN
    /\ Cardinality(req[r].list) = Cardinality(own)
    /\ \A sb \in own : \E e \in req[r].list : e.name = sb.name /\ e.namespace = sb.namespace
    /\ \A e \in req[r].list : \E sb \in own : e.name = sb.name /\ e.namespace = sb.namespace

\* C24 (degraded): whatever fetches fail, the listing is answered 200, and a
\* record whose orchestrator object is gone has its entry, with serviceFQDN and
\* service 'error' and ready false.
C24_FailedFetchIsMarked ==
  \A r \in Req : (req[r].kind = ListKind /\ req[r].pc = "listFetch" /\ req'[r] # req[r]) =>
    /\ Listed(req'[r])
    /\ \A sb \in req[r].rows :
         K8sFind(sb.namespace, sb.k8s_resource_name) = {} => ErrorEntry(sb) \in req'[r].list

\* C24: GET /api/sandboxes returns exactly one entry per sandbox record owned by
\* the caller and none owned by another user; an entry whose orchestrator
\* status fetch fails is still returned, with serviceFQDN and service set to
\* 'error' and ready = false, rather than omitted or failing the request.
C24_ListOwnWithErrorMarkers ==
  []C24_OneEntryPerOwnRecord /\ [][C24_FailedFetchIsMarked]_vars

\* C24 witness: a user holding two sandboxes, one of whose objects is gone, was
\* listed both, one with the error marker, while another user holds a sandbox
C24_Witness ==
  \E r \in Req :
    /\ Listed(req[r]) /\ Cardinality(req[r].list) = 2
    /\ \E e \in req[r].list : e.serviceFQDN = "error" /\ ~e.ready
    /\ \E e \in req[r].list : e.serviceFQDN # "error"
    /\ \E sb \in sandboxes : sb.user_id # req[r].user.id

\* C25 (records): every sandbox record lies in the namespace 'user-' + its
\* owner's username, under its own name, and records of distinct users lie in
\* distinct namespaces.
C25_RecordsInOwnersNamespace ==
  /\ \A sb \in sandboxes :
       /\ \E u \in users : u.id = sb.user_id /\ sb.namespace = UserNamespace(u.username)
       /\ sb.namespace[1] = "user-"
       /\ sb.k8s_resource_name = sb.name
  /\ \A sb1, sb2 \in sandboxes :
       sb1.user_id # sb2.user_id => sb1.namespace # sb2.namespace

\* C25 (object): the record a create inserts names the namespace and the name
\* under which that request created its orchestrator object.
C25_ObjectInThatNamespace ==
  \A r \in Req : (At(r, "create", "dbInsert") /\ req'[r].pc = "audit") =>
    \E sb \in sandboxes' \ sandboxes :
      /\ sb.user_id = req[r].user.id /\ sb.name = req[r].name
      /\ req[r].call.op = "create" /\ req[r].call.answer = "ok"
      /\ req[r].call.namespace = sb.namespace /\ req[r].call.name = sb.k8s_resource_name

\* C25 (list): the owner's listing shows each sandbox with that namespace.
C25_ListShowsNamespace ==
  \A r \in Req : Listed(req[r]) =>
    \A e \in req[r].list : e.namespace = <<"user-", req[r].user.username>>

\* C25: every sandbox record created through POST /api/sandboxes has namespace
\* 'user-' + the owner's username and k8s_resource_name = its name, and its
\* orchestrator object is created in that namespace; the records of distinct
\* users lie in distinct namespaces, and the owner's list shows the sandbox
\* with that namespace.
C25_NamespacePerUser ==
  /\ [](C25_RecordsInOwnersNamespace /\ C25_ListShowsNamespace)
  /\ [][C25_ObjectInThatNamespace]_vars

\* C25 witness: two users hold a sandbox of the same name and one of them has
\* been listed hers, in her namespace
C25_Witness ==
  \E r \in Req, sb1, sb2 \in sandboxes :
    /\ sb1.user_id # sb2.user_id /\ sb1.name = sb2.name
    /\ Listed(req[r]) /\ req[r].user.id = sb1.user_id
    /\ \E e \in req[r].list : e.name = sb1.name /\ e.namespace = <<"user-", "alice">>

\* C26: partition creation is idempotent under concurrency: when two creates of
\* one user, for different names, both find the namespace missing and both
\* attempt to create it, the loser's 'already exists' answer is not treated as
\* an error and both creations complete.  Nothing else fails in these runs, so
\* every concluded create has answered 201 and left its record.  (Refuted:
\* createNamespace is awaited outside any try; its 409 is thrown to the
\* handler's catch.)
C26_BothCreatesComplete ==
  \A r \in Req : (req[r].kind = "create" /\ req[r].pc = "done") =>
    /\ req[r].resp.status = 201
    /\ HasRecord(req[r].user.id, req[r].name)

\* C27 (step): whatever the quota call and the network policy call answer, the
\* create goes on to the next step, never to the catch.
C27_FailureDoesNotAbort ==
  \A r \in Req :
    /\ (At(r, "create", "nsQuota") /\ req'[r] # req[r]) => req'[r].pc = "nsPolicy"
    /\ (At(r, "create", "nsPolicy") /\ req'[r] # req[r]) => req'[r].pc = "gcs"

\* C27 (outcome): a create that ends in the catch did not get there from the
\* quota or policy step: it is answered with the error of another call.
C27_NoQuotaError ==
  \A r \in Req : (req[r].kind = "create" /\ req[r].pc \in {"catch", "done"}) =>
    req[r].resp.message \notin {"createNamespacedResourceQuota failed",
                                 "createNamespacedNetworkPolicy failed"}

\* C27: if creating the resource quota or the network policy for a newly
\* created namespace fails, ensureNamespaceExists still returns normally and
\* sandbox creation continues through storage provisioning, orchestrator
\* submission and record insert.
C27_QuotaPolicySoftFail == []C27_NoQuotaError /\ [][C27_FailureDoesNotAbort]_vars

\* C27 witness: a create was answered 201 with its folder, object and record in
\* place, in a namespace whose quota and policy calls both failed
C27_Witness ==
  \E r \in Req, n \in namespaces :
    /\ req[r].kind = "create" /\ req[r].pc = "done" /\ req[r].resp.status = 201
    /\ req[r].steps = <<"folder", "object", "record">>
    /\ n.name = <<"user-", req[r].user.username>> /\ ~n.quota /\ ~n.policy
    /\ HasRecord(req[r].user.id, req[r].name)

\* C28: every user namespace that holds a sandbox created through the API has
\* the 'user-quota' resource quota and the 'allow-from-default' network policy
\* applied, also after a quota or policy call failed earlier.  (Refuted: a
\* failed quota or policy call is logged and never repeated; later creates find
\* the namespace and skip both.)
C28_NamespaceHasQuotaAndPolicy ==
  \A n \in namespaces :
    (\E sb \in sandboxes : sb.namespace = n.name) => n.quota /\ n.policy

\* The create of request r got its object accepted and its record refused
InsertFailed(rq) ==
  rq.kind = "create" /\ rq.steps = <<"folder", "object">>
  /\ rq.pc \notin {"k8sCreate", "dbInsert"}

\* C29 (no rollback): the step in which the record insert fails, and the catch
\* after it, leave the orchestrator object in place.
C29_ObjectStays ==
  \A r \in Req :
    ((At(r, "create", "dbInsert") \/ At(r, "create", "catch")) /\ req'[r] # req[r]
     /\ InsertFailed(req'[r]))
    => K8sFind(req[r].call.namespace, req[r].call.name) # {} /\ k8sObjects' = k8sObjects

\* C29 (answer): once the catch has run, the caller has a 500 and the audit log
\* a 'failed' create_sandbox entry of the caller.
C29_FailureAnswered ==
  \A r \in Req : (InsertFailed(req[r]) /\ req[r].pc # "catch") =>
    /\ req[r].pc = "done" /\ req[r].resp.status = 500
    /\ \E a \in audit_logs : a.action = "create_sandbox" /\ a.status = "failed"
                               /\ a.user_id = req[r].user.id

\* C29 (unreachable): a get, delete, pause, resume or relay call is issued only
\* on the object of a record the request has read, which an object without a
\* record never is.
C29_CallsNeedRecord ==
  \A r \in Req :
    (req'[r].call # req[r].call /\ req'[r].call.op \in ScopedOps) =>
      /\ req[r].sandbox # NoSandbox
      /\ req'[r].call.namespace = req[r].sandbox.namespace
      /\ req'[r].call.name = req[r].sandbox.k8s_resource_name

\* C29: if the ownership-record insert fails after the orchestrator accepted
\* the object, the object is left in place, the caller receives a 500 with a
\* 'failed' audit entry, and the orphaned object is unreachable.  (Refuted in
\* its second part: when the insert fails because the user is gone, the audit
\* insert of the catch fails too and the request is never answered.)
C29_OrphanLeftAndReported ==
  []C29_FailureAnswered /\ [][C29_ObjectStays /\ C29_CallsNeedRecord]_vars

\* The first and third part of C29 alone
C29_OrphanLeftUnreachable == [][C29_ObjectStays /\ C29_CallsNeedRecord]_vars

\* spec.replicas as pause and resume set it
Replicas(kind) == IF kind = "pause" THEN 0 ELSE 1

\* C30 (replace): the replace call that succeeds puts in place the object the
\* request read with replicas set to 0 (pause) or 1 (resume) and nothing else
\* changed, and leaves every other object and every record as it was.
C30_ReplaceAsRead ==
  \A r \in Req : (req[r].pc = "k8sReplace" /\ req'[r].pc = "audit") =>
    LET sb == req[r].sandbox
        submitted == [req[r].obj EXCEPT !.replicas = Replicas(req[r].kind)] IN
    /\ req[r].kind \in {"pause", "resume"}
    /\ req[r].obj.namespace = sb.namespace /\ req[r].obj.name = sb.k8s_resource_name
    /\ req[r].obj \in k8sObjects
    /\ k8sObjects' = (k8sObjects \ {req[r].obj}) \cup {submitted}
    /\ sandboxes' = sandboxes

\* C30 (conclusion): the audit write and the answer that follow change no
\* object and no record.
C30_ConcludeTouchesNothing ==
  \A r \in Req :
    (req[r].kind \in {"pause", "resume"} /\ req[r].pc = "audit" /\ req'[r].pc = "done")
    => UNCHANGED <<sandboxes, k8sObjects>>

\* C30: a successful pause (resume) resubmits the orchestrator object it read
\* with spec.replicas set to 0 (1) and every other field exactly as read, and
\* changes neither the sandbox's ownership record nor any other sandbox's
\* orchestrator object.
C30_PauseSetsReplicasOnly == [][C30_ReplaceAsRead /\ C30_ConcludeTouchesNothing]_vars

\* C30 witness: a pause was answered 200; the sandbox's object has replicas 0
\* and the service name the controller gave it, and another user's object
\* still has replicas 1
C30_Witness ==
  \E r \in Req, o1, o2 \in k8sObjects :
    /\ req[r].kind = "pause" /\ req[r].pc = "done" /\ req[r].resp.status = 200
    /\ o1.namespace = <<"user-", req[r].user.username>> /\ o1.name = req[r].name
    /\ o1.replicas = 0 /\ o1.ready = "True"
    /\ o2.namespace # o1.namespace /\ o2.replicas = 1

----------------------------------------------------------------------------
(* Pause and resume beside other writers of the orchestrator object *)

\* The replace step of request r: the handler leaves its replace call
ReplaceStep(r) ==
  /\ req[r].kind \in {"pause", "resume"}
  /\ req[r].pc = "k8sReplace" /\ req'[r].pc # "k8sReplace"

\* The object of the sandbox request r works on, as the orchestrator holds it
Current(r) == K8sFind(req[r].sandbox.namespace, req[r].sandbox.k8s_resource_name)

\* The object request r read has since been written by someone else
WrittenSinceRead(r) == Current(r) # {} /\ req[r].obj \notin Current(r)

\* C31: when another writer changes the orchestrator object between a pause's
\* (resume's) read and its replace, the handler still completes successfully and
\* the object's desired replica count after the replace is the one it requested.
C31_ReplaceToleratesWriters ==
  [][\A r \in Req :
       (ReplaceStep(r) /\ WrittenSinceRead(r))
       => /\ req'[r].pc = "audit"
          /\ \E o \in Current(r)' : o.replicas = Replicas(req[r].kind)]_vars

\* The image of the object request r read is no longer the object's image
EditedSinceRead(r) ==
  Current(r) # {} /\ \A o \in Current(r) : o.image # req[r].obj.image

----------------------------------------------------------------------------
(* The detached last_used_at update and a failing credential store *)

\* The detached update of request r settles in this step
UpdateSettles(r) == req[r].touch.state = "pending" /\ req'[r].touch.state # "pending"

\* C33 (failure): when the update is rejected, the request keeps its principal,
\* its position and its answer, and the credential store is untouched.
C33_FailureChangesNothing ==
  \A r \in Req :
    (UpdateSettles(r) /\ req'[r].touch.state = "failed")
    => /\ req'[r] = [req[r] EXCEPT !.touch.state = "failed"]
       /\ UNCHANGED dbVars

\* C33 (completion): when the update completes, the request is as it was and
\* only last_used_at of the validated key changed.
C33_CompletionTouchesOneColumn ==
  \A r \in Req :
    (UpdateSettles(r) /\ req'[r].touch.state = "applied")
    => /\ req'[r] = [req[r] EXCEPT !.touch.state = "applied"]
       /\ { [k EXCEPT !.last_used_at = NeverUsed] : k \in api_keys' }
            = { [k EXCEPT !.last_used_at = NeverUsed] : k \in api_keys }
       /\ \A k \in api_keys' : k.id # req[r].touch.id => k \in api_keys

\* C33 (start): an update is started exactly by a validation that returned
\* valid, and the gate lets the request through in the same step without
\* waiting for it.
C33_StartedByValidKey ==
  \A r \in Req :
    (Free(r) /\ req'[r] # req[r] /\ req'[r].touch.state = "pending")
    => /\ req'[r].user # NoUser
       /\ req'[r].pc \in {"handler", "authorize"} \/ req'[r].resp.status = 200

\* C33: the last_used_at update started by a successful key validation is
\* detached from the request: the handler runs and answers whether or not the
\* update has completed, and a failure of the update changes neither the
\* principal attached by the authentication nor the response.
C33_UpdateDetached ==
  [][C33_FailureChangesNothing /\ C33_CompletionTouchesOneColumn
     /\ C33_StartedByValidKey]_vars

\* C33 witness: a GET of alice's sandbox was answered 200 while the update of
\* that request is still pending and last_used_at of her key is still NULL
C33_Witness ==
  /\ req[1].kind = "get" /\ req[1].pc = "done" /\ req[1].resp.status = 200
  /\ req[1].touch.state = "pending"
  /\ \E k \in api_keys : k.id = req[1].touch.id /\ k.last_used_at = NeverUsed

\* C33 witness (failure): the update of an answered request was rejected, the
\* answer is still 200 and the principal is still attached
C33_FailedWitness ==
  /\ req[1].pc = "done" /\ req[1].resp.status = 200 /\ req[1].user # NoUser
  /\ req[1].touch.state = "failed"

\* A request arrives in slot r and the authentication gate decides
GateStep(r) ==
  /\ Free(r) /\ req'[r] # req[r]
  /\ req'[r].touch.state \in {"none", "pending"}

\* The request in slot r is past the gate: next was called
PastGate(rec) ==
  \/ rec.pc \notin {"idle", "done", "hung"}
  \/ rec.kind = MeKind /\ rec.resp.status = 200

\* C36 (next): the gate calls next only when validateApiKey, asked for the
\* digest of the presented key, returned valid, and it attaches that user.
C36_NextOnlyAfterValid ==
  \A r \in Req :
    (GateStep(r) /\ PastGate(req'[r]))
    => /\ req'[r].queried
       /\ ~Falsy(req'[r].hdr) /\ startsWith(req'[r].hdr.value, Bearer)
       /\ LET result == validateApiKey(hashApiKey(substring(req'[r].hdr.value, 7))) IN
            result.valid /\ req'[r].user = result.user

\* C36 (throw): a request the gate answered 500 has no principal and its
\* handler never ran: it changed nothing and issued no call.
C36_ThrowAnswers500 ==
  \A r \in Req :
    (GateStep(r) /\ req'[r].resp.message = "Failed to authenticate request")
    => /\ req'[r].pc = "done" /\ req'[r].resp.status = 500
       /\ req'[r].user = NoUser /\ req'[r].touch = NoUpdate /\ req'[r].call = NoCall
       /\ UNCHANGED <<dbVars, k8sVars, gcsFolders>>

\* A request in a handler has a principal
C36_HandlerHasPrincipal ==
  \A r \in Req : PastGate(req[r]) => req[r].user # NoUser

\* C36: the authentication gate fails closed: when the credential store lookup
\* throws, authenticate answers 500, attaches no principal and does not call
\* next; a handler behind authenticate runs only after validateApiKey returned
\* valid for that request.
C36_GateFailsClosed ==
  []C36_HandlerHasPrincipal /\ [][C36_NextOnlyAfterValid /\ C36_ThrowAnswers500]_vars

\* C36 witness: alice presented her valid key on GET /api/sandboxes/demo, the
\* lookup threw, and the request ended with 500 and no principal, although
\* her sandbox exists
C36_Witness ==
  /\ req[1].kind = "get" /\ req[1].hdr = BearerHeader(PlaintextKey(1))
  /\ req[1].pc = "done" /\ req[1].resp.status = 500
  /\ req[1].resp.message = "Failed to authenticate request"
  /\ req[1].user = NoUser
  /\ validateApiKey(hashApiKey(PlaintextKey(1))).valid
  /\ \E s \in sandboxes : s.name = "demo" /\ s.user_id = Uuids[1]

----------------------------------------------------------------------------
(* Repeating a create that failed part-way *)

\* C34: after a create of (owner, name) failed part-way and was answered 500,
\* the same create repeated with every collaborator healthy is answered 201 and
\* leaves exactly one orchestrator object and one ownership record of that name.
C34_RetrySucceeds ==
  req[2].pc = "done"
  => /\ req[2].resp.status = 201
     /\ Cardinality(K8sFind(UserNamespace("alice"), "demo")) = 1
     /\ Cardinality({ s \in sandboxes : s.user_id = Uuids[1] /\ s.name = "demo" }) = 1

----------------------------------------------------------------------------
(* DELETE /api/admin/users/:userId *)

\* C35: DELETE /api/admin/users/:userId for an existing user removes the user
\* with all of their API keys and sandbox records, writes an 'admin_delete_user'
\* success audit entry linked to that user id and answers 200; afterwards no
\* key of that user authenticates.
C35_DeleteUserAuditedAnd200 ==
  [][\A id \in IssuedIds :
       (getUserById(id) # {} /\ getUserById(id)' = {})
       => /\ \A k \in api_keys' : k.user_id # id
          /\ \A s \in sandboxes' : s.user_id # id
          /\ \A k \in api_keys : k.user_id = id => ~validateApiKey(k.key_hash)'.valid
          /\ \E a \in audit_logs' :
               a.action = "admin_delete_user" /\ a.status = "success" /\ a.user_id = id
          /\ \E r \in Req :
               req'[r].kind = "adminDeleteUser" /\ req'[r].name = id
               /\ req'[r].resp.status = 200]_vars

----------------------------------------------------------------------------
(* DELETE /api/me/apikeys/:keyId *)

\* A DELETE /api/me/apikeys/:keyId is handled in slot r, from arrival to answer
MeRevokeStep(r) == Free(r) /\ req'[r] # req[r] /\ req'[r].kind = "meRevoke"

\* C37 (others' keys): every key whose user_id is not the caller's id is after
\* the request exactly as before it.
C37_OthersKeysUntouched ==
  \A r \in Req :
    MeRevokeStep(r) =>
      \A k \in api_keys : k.user_id # req'[r].user.id => k \in api_keys'

\* C37 (answers): the named key is deactivated only when its user_id is the
\* caller's id; a key of another user is answered 403 and stays as it is; an
\* unknown id is answered 404.
C37_AnswerByOwnership ==
  \A r \in Req :
    (MeRevokeStep(r) /\ req'[r].user # NoUser) =>
      LET rows == getApiKeyById(req'[r].name) IN
      IF rows = {}
      THEN req'[r].resp.status = 404 /\ api_keys' = api_keys
      ELSE \A k \in rows :
        IF k.user_id = req'[r].user.id
        THEN /\ req'[r].resp.status = 200
             /\ api_keys' = (api_keys \ {k}) \cup {[k EXCEPT !.is_active = FALSE]}
        ELSE /\ req'[r].resp.status = 403
             /\ api_keys' = api_keys

\* C37: DELETE /api/me/apikeys/:keyId never changes a key owned by another user:
\* it deactivates the key only when the key's user_id equals the caller's id,
\* answers 403 and leaves the key active otherwise, and answers 404 when no such
\* key exists.
C37_RevokeOwnKeysOnly == [][C37_OthersKeysUntouched /\ C37_AnswerByOwnership]_vars

\* C37 witness: alice named bob's key and was answered 403; bob's key is active
C37_Witness ==
  /\ req[1].kind = "meRevoke" /\ req[1].user.id = Uuids[1] /\ req[1].name = Uuids[2]
  /\ req[1].resp.status = 403
  /\ \E k \in api_keys : k.id = Uuids[2] /\ k.user_id = Uuids[2] /\ k.is_active

----------------------------------------------------------------------------
(* The relay beside a delete of the sandbox it was asked for *)

\* The caller of proxy request r has a record of the sandbox it names
HasOwnRecord(r) == userOwnsSandbox(req[r].user.id, req[r].name)

\* The proxy request in slot r is answered in this step
ProxyAnswers(r) == req[r].kind = "proxy" /\ req[r].pc # "done" /\ req'[r].pc = "done"

\* The 404 of the proxy handler itself: { error: 'Sandbox not found' }
OwnNotFound == Resp(404, "Sandbox not found", NULL)

\* C38 as stated: a proxy request of a caller whose record is present is never
\* answered 404.
C38_PresentRecordNever404 ==
  [][\A r \in Req :
       (ProxyAnswers(r) /\ req'[r].resp.status = 404) => ~HasOwnRecord(r)]_vars

\* C38 (check): at the ownership check an absent record is answered 403 and a
\* present one lets the handler go on to the record fetch.
C38_CheckAnswers403 ==
  \A r \in Req :
    (At(r, "proxy", "handler") /\ req'[r] # req[r])
    => IF HasOwnRecord(r) THEN req'[r].pc = "fetch" ELSE req'[r].resp = Forbidden

\* C38 (fetch): the handler's own 404 comes from the record fetch alone, and
\* exactly when the record is absent there.
C38_Own404AtFetch ==
  \A r \in Req :
    /\ (ProxyAnswers(r) /\ req'[r].resp = OwnNotFound)
       => At(r, "proxy", "fetch") /\ ~HasOwnRecord(r)
    /\ (At(r, "proxy", "fetch") /\ req'[r] # req[r] /\ ~HasOwnRecord(r))
       => req'[r].resp = OwnNotFound

\* C38 (interleaving): a request waits at the record fetch without a record
\* only when the record was deleted while it waited there.
C38_AbsentOnlyByDelete ==
  \A r \in Req :
    (At(r, "proxy", "fetch")' /\ ~HasOwnRecord(r)')
    => /\ At(r, "proxy", "fetch")
       /\ HasOwnRecord(r) => \E s \in sandboxes \ sandboxes' :
                               s.user_id = req[r].user.id /\ s.name = req[r].name

\* C38: /proxy/:name/* answers its own 404 'Sandbox not found' only when the
\* caller's sandbox record is deleted between the handler's ownership check and
\* its record fetch; without such a delete an absent record is answered 403 and
\* a present record is never answered 'Sandbox not found'.  A 404 of the
\* upstream service is relayed as the upstream gave it.
C38_Own404OnlyAfterDelete ==
  [][C38_CheckAnswers403 /\ C38_Own404AtFetch /\ C38_AbsentOnlyByDelete]_vars

\* C38 witness: alice's proxy request passed the ownership check, her delete
\* on the other connection removed the record, and the proxy answered 404
C38_Witness ==
  /\ req[1].kind = "proxy" /\ req[1].pc = "done" /\ req[1].resp = OwnNotFound
  /\ req[1].owned /\ req[1].user.id = Uuids[1]
  /\ req[2].kind = "delete" /\ req[2].user.id = Uuids[1] /\ req[2].owned
  /\ req[2].pc \in {"audit", "done"}
  /\ ~userOwnsSandbox(Uuids[1], "demo")

----------------------------------------------------------------------------
(* A username given to a new user after its first holder was deleted *)

\* The orchestrator objects in the namespace of request r's user
NamespaceContents(r) ==
  { o \in k8sObjects : o.namespace = UserNamespace(req[r].user.username) }

\* C39 (folder): the only create of the second user does not find the folder
\* '<username>/<name>' it is about to mount already provisioned by the first.
C39_FolderNotInherited ==
  At(2, "create", "gcs")
  => GcsFolderPath(req[2].user.username, req[2].name) \notin gcsFolders

\* C39 (namespace): the only create of the second user does not submit its
\* object to a namespace that holds objects of the first.
C39_NamespaceNotInherited ==
  At(2, "create", "k8sCreate") => NamespaceContents(2) = {}

\* C39: a sandbox never mounts a storage sub-path, and never lands in a
\* namespace holding orchestrator objects, that was provisioned for a different
\* user id: after a user is deleted and a new user is created with the same
\* username, a sandbox created by the new user does not reuse the deleted
\* user's '<username>/<name>' folder or 'user-<username>' namespace contents.
C39_NothingInherited == C39_FolderNotInherited /\ C39_NamespaceNotInherited

----------------------------------------------------------------------------
(* The routing table of the legacy variant *)

\* C40: in the legacy discovery variant, after every completed discovery pass
\* the routing table holds exactly the sandboxes the orchestrator listed with a
\* service name, so a sandbox removed from the orchestrator out-of-band is no
\* longer routable after the next pass.
C40_PassYieldsExactlyListed ==
  [][(discovery.pc = "listed" /\ discovery'.pc = "idle")
     => { e.key : e \in sandboxCache' }
          = { CacheKey(o.user, o.name) : o \in WithService(discovery.items) }]_vars

====
